---- MODULE Spec2Model ----
(***************************************************************************)
(* A model of the synchronous HTTP policy pipeline of azure-core           *)
(* (azure/core/pipeline/_base.py): construction of the policy chain, the   *)
(* Sans-I/O policy runner, the transport runner, Pipeline.run with its     *)
(* multipart preparation phase, and the Pipeline as a context manager;     *)
(* and of two users of it: the generated operation                         *)
(* AzureMonitorWorkspacesOperations.get, which maps status codes to        *)
(* errors, and get_random_bytes of the perfstress tools with its shared    *)
(* module-level buffer.                                                    *)
(***************************************************************************)
EXTENDS Integers, Sequences, FiniteSets, TLC

\* ------------------------------------------------------------------ bounds
\* longest policy list given to the constructor
MaxPolicies == 3
\* largest number of attempts a retry policy is configured with
MaxAttempts == 2
\* times the Pipeline is used as a context manager
MaxScopes == 2
\* hooks and transport sends that raise in one run
MaxFaults == 2
\* sub-requests of a multipart request
MaxParts == 3
\* policies of a multipart request's own policy list
MaxSubPolicies == 2
\* levels of changesets nested in a multipart request
MaxDepth == 2
\* parts of a multipart request that holds a changeset, and of a changeset
MaxNestedParts == 2
\* threads that call get_random_bytes
MaxThreads == 2
\* bytes by which a requested length may exceed the default length
MaxGrowth == 2
\* _DEFAULT_LENGTH of _random_stream.py: 1024 * 1024
DEFAULT_LENGTH == 1048576
\* longest policy list given to the constructor of a second Pipeline
MaxSecondPolicies == 2

\* ------------------------------------------------------------------ values
\* An entry "S" of a policy list is an instance of SansIOHTTPPolicy, told from the
\* other entries of the list by its position; its on_request leaves the options
\* of the context alone or flags a redirect to another domain. "W" is an instance
\* of SansIOHTTPPolicy whose on_request may set or pop any option of the context.
\* "R1" is an instance of HTTPPolicy, the retry policy.
RedirectPolicies == {"S"}
WritingPolicies == {"W"}
SansIOPolicies == RedirectPolicies \cup WritingPolicies
ChainingPolicies == {"R1"}
\* the objects the policy lists are made of, where not said otherwise
PolicyObjects == RedirectPolicies \cup ChainingPolicies
\* "C0" is an instance of HTTPPolicy that answers by itself: its send returns a
\* response without calling self.next.send.
AnsweringPolicies == {"C0"}

kwargs_to_remove == {"insecure_domain_change", "enable_cae", "tracing_options"}
TransportKeys == {"connection_timeout"}
OptionKeys == kwargs_to_remove \cup TransportKeys

\* a value the caller of run supplied
CallerValue == "caller"
\* a value a policy wrote into the context
PolicyValue == "policy"
\* the same for the run of the other thread
OtherCallerValue == "other caller"
OtherPolicyValue == "other policy"

Statuses == {200, 404, 500}
HookOutcomes == {"return", "Exception", "BaseException"}

\* a request without multipart information
NoRequest == [parts |-> 0, subpolicies |-> 0, changeset |-> 0, depth |-> 0, nparts |-> 0]

\* What a call returns or raises. An exception is known by the event of the log
\* that raised it (origin), or by the part and the hook of the multipart phase
\* that raised it. A PipelineResponse is known by the send event that produced it
\* and holds the status of the transport's response, the http_request and the
\* context it was built with (a context is known by the event that created it).
NoResult ==
    [kind |-> "none", cls |-> "-", origin |-> 0, part |-> 0, status |-> 0,
     http_request |-> NoRequest, context |-> 0]
Raised(cls, origin) ==
    [kind |-> "raise", cls |-> cls, origin |-> origin, part |-> 0, status |-> 0,
     http_request |-> NoRequest, context |-> 0]
RaisedInPart(cls, hook, part) ==
    [kind |-> "raise", cls |-> cls, origin |-> hook, part |-> part, status |-> 0,
     http_request |-> NoRequest, context |-> 0]
PipelineResponse(http_request, status, origin, context) ==
    [kind |-> "response", cls |-> "-", origin |-> origin, part |-> 0, status |-> status,
     http_request |-> http_request, context |-> context]

RECURSIVE SeqsUpTo(_, _)
SeqsUpTo(S, n) ==
    IF n = 0 THEN {<<>>}
    ELSE LET shorter == SeqsUpTo(S, n - 1)
         IN shorter \cup {Append(s, x) : s \in {t \in shorter : Len(t) = n - 1}, x \in S}

\* ------------------------------------------------------------------ chain nodes
RunnerNode(i, p) == [kind |-> "runner", id |-> i, policy |-> p]
ChainingNode(p) == [kind |-> "chaining", id |-> 0, policy |-> p]
TransportRunner == [kind |-> "transport", id |-> 0, policy |-> "-"]
NoNode == [kind |-> "none", id |-> 0, policy |-> "-"]
\* The _TransportRunner of a Pipeline constructed later, around another transport
SecondTransportRunner == [kind |-> "transport", id |-> 0, policy |-> "second"]

VARIABLES
    policies,        \* the constructor's policies argument: [given, list]
    impl_policies,   \* Pipeline._impl_policies
    next,            \* the next attribute of every chain node
    retry_total,     \* attempts the retry policy is configured with
    second,          \* a Pipeline constructed later: [built, policies, impl_policies]
    scope,           \* "out" | "in": whether the with block is entered
    scopes,          \* with blocks entered so far
    enterCount,      \* calls of transport.__enter__
    exitCount,       \* calls of transport.__exit__
    exit,            \* the last leaving of a with block: [exc_details, forwarded,
                     \* transport_returned, returned, escaped]
    pc,              \* "idle" | "multipart" | "chain" | "returned" | "raised"
    request,         \* the request given to run: [parts, subpolicies, changeset,
                     \* depth, nparts]
    run_kwargs,      \* the keyword arguments given to run
    hasContext,      \* whether run created the PipelineContext
    options,         \* context.options of the call
    stack,           \* call stack of send frames, innermost last
    ret,             \* what the innermost finished send returned or raised
    lastSend,        \* the send call that finished last: [node, fired, got, out]
    result,          \* what run returned or raised
    log,             \* the main chain's hooks and sends of the current run, in order
    sendCount,       \* calls of transport.send in the current run
    sendKwargs,      \* per transport.send of the run: the context's option bag when
                     \* _TransportRunner.send was called, the keyword arguments passed
    future,          \* state of each sub-request's future
    subHooks,        \* sub-policy hooks fired on each sub-request
    subExc,          \* exception raised while preparing each sub-request
    subCalls,        \* the hook calls made on each sub-request, in order:
                     \* [hook, policy, part, context]
    changesets,      \* per level of nesting, the preparation of the changeset of
                     \* that level: [pc, future, calls, exc, ret]
    serialized,      \* whether prepare_multipart_body built the composite body
    other,           \* a run of another thread on the same Pipeline:
                     \* [pc, node, kwargs, options, sent]; node is the node
                     \* whose send is called next or, once the transport's send
                     \* was called (sent is not empty), has returned last
    byte_buffer,     \* _BYTE_BUFFER of _random_stream.py: [length, data], the
                     \* recorded length and the number of bytes of the buffer
    callers,         \* per thread, its call of get_random_bytes:
                     \* [pc, buffer_length, returned]
    operation        \* the last call of AzureMonitorWorkspacesOperations.get:
                     \* [pc, status_code, error_map, cls, outcome]

vars == <<policies, impl_policies, next, retry_total, second, scope, scopes, enterCount,
          exitCount, exit, pc, request, run_kwargs, hasContext, options, stack, ret,
          lastSend, result, log, sendCount, sendKwargs, future, subHooks, subExc, subCalls,
          changesets, serialized, other, byte_buffer, callers, operation>>

chainVars == <<policies, impl_policies, next, retry_total, second>>
scopeVars == <<scope, scopes, enterCount, exitCount, exit>>
toolVars == <<byte_buffer, callers, operation>>
multipartVars == <<future, subHooks, subExc, subCalls, changesets, serialized>>

\* ------------------------------------------------------------------ construction
\* A constructor that keeps every entry that is not a SansIOHTTPPolicy.
TruthyAlways(policy) == TRUE

\* elif policy: the entry is truthy
Truthy(policy) == policy # "None"

\* A constructor that puts each node in front of the list instead of at its end.
RECURSIVE ImplPoliciesPrepending(_, _)
ImplPoliciesPrepending(list, acc) ==
    IF list = <<>> THEN acc
    ELSE LET policy == Head(list)
         IN ImplPoliciesPrepending(Tail(list),
                IF policy \in SansIOPolicies
                THEN <<RunnerNode(Len(acc) + 1, policy)>> \o acc
                ELSE IF Truthy(policy) THEN <<ChainingNode(policy)>> \o acc
                ELSE acc)

\* Pipeline.__init__, first loop: wrap every SansIOHTTPPolicy in a fresh runner,
\* keep every other truthy entry as it is.
RECURSIVE ImplPolicies(_, _)
ImplPolicies(list, acc) ==
    IF list = <<>> THEN acc
    ELSE LET policy == Head(list)
         IN ImplPolicies(Tail(list),
                IF policy \in SansIOPolicies
                THEN Append(acc, RunnerNode(Len(acc) + 1, policy))
                ELSE IF Truthy(policy) THEN Append(acc, ChainingNode(policy))
                ELSE acc)

SetNext(nxt, node, target) ==
    [n \in DOMAIN nxt \cup {node} |-> IF n = node THEN target ELSE nxt[n]]

\* Pipeline.__init__, second loop: impl[index].next = impl[index + 1], in index order.
RECURSIVE LinkChain(_, _, _)
LinkChain(impl, index, nxt) ==
    IF index > Len(impl) - 1 THEN nxt
    ELSE LinkChain(impl, index + 1, SetNext(nxt, impl[index], impl[index + 1]))

\* Pipeline.__init__, last statement: the last node's next is a new _TransportRunner.
LinkTransport(impl, nxt) ==
    IF impl # <<>> THEN SetNext(nxt, impl[Len(impl)], TransportRunner) ELSE nxt

NoNext == [n \in {} |-> NoNode]

PolicyArguments ==
    {[given |-> FALSE, list |-> <<>>]}
        \cup {[given |-> TRUE, list |-> l] : l \in SeqsUpTo(PolicyObjects, MaxPolicies)}

\* policies or []
PoliciesOrEmpty(arg) == IF arg.given /\ arg.list # <<>> THEN arg.list ELSE <<>>

\* A run that starts at the last node of the list (index -1 for index 0).
first_node_last ==
    IF impl_policies # <<>> THEN impl_policies[Len(impl_policies)] ELSE TransportRunner

\* first_node of Pipeline.run
first_node == IF impl_policies # <<>> THEN impl_policies[1] ELSE TransportRunner

\* ------------------------------------------------------------------ inputs of run
Requests == {NoRequest}
               \cup {[parts |-> k, subpolicies |-> m, changeset |-> 0, depth |-> 0, nparts |-> 0] :
                        k \in 1..MaxParts, m \in 0..MaxSubPolicies}

\* The option bags a caller passes: none, one key, or all of them.
CallOptions ==
    UNION {[K -> {CallerValue}] :
              K \in {{}} \cup {{k} : k \in OptionKeys} \cup {OptionKeys}}

\* on_request that leaves request.context.options as it is
NoChange == [op |-> "none", key |-> "-"]

\* What on_request of a policy may do to request.context.options, on which the
\* code sets no limit: the policy that flags a redirect sets
\* insecure_domain_change or nothing; the policy that writes sets or pops any key.
OptionChanges(policy) ==
    {NoChange}
        \cup IF policy \in WritingPolicies
             THEN {[op |-> o, key |-> k] : o \in {"set", "pop"}, k \in OptionKeys}
             ELSE {[op |-> "set", key |-> "insecure_domain_change"]}

\* A cleanup whose list of keys lacks tracing_options.
cleanup_kwargs_missing_key(kwargs) ==
    IF DOMAIN kwargs = {} THEN kwargs
    ELSE [k \in DOMAIN kwargs \ {"insecure_domain_change", "enable_cae"} |-> kwargs[k]]

\* A cleanup that empties the dict.
cleanup_kwargs_clear(kwargs) == [k \in {} |-> CallerValue]

\* cleanup_kwargs_for_transport: pops the three keys from a non-empty dict, in place.
cleanup_kwargs_for_transport(kwargs) ==
    IF DOMAIN kwargs = {} THEN kwargs
    ELSE [k \in DOMAIN kwargs \ kwargs_to_remove |-> kwargs[k]]

\* A send call in progress: the node, where it stands, the retry policy's attempt,
\* the hooks it has fired and what its self.next.send gave back.
Frame(node) ==
    [node |-> node, phase |-> "call", attempt |-> 0, fired |-> <<>>, got |-> NoResult]
NoSend == [node |-> NoNode, fired |-> <<>>, got |-> NoResult, out |-> NoResult]
Top == stack[Len(stack)]
Pop == SubSeq(stack, 1, Len(stack) - 1)

\* An entry of the log: a hook of the policy at position `at` of the chain, or a
\* transport send; how it ended, and the status of the response a send returned.
Event(ev, at, policy, outcome, status) ==
    [ev |-> ev, at |-> at, policy |-> policy, outcome |-> outcome, status |-> status]
Step(ev) == Event(ev, 0, "-", "return", 0)

\* request.context of the PipelineRequest of the run: the context run created
ContextCreated == CHOOSE i \in DOMAIN log : log[i].ev = "context"

\* The PipelineResponse for a transport response with this status, built from the
\* PipelineRequest of the run: its http_request and its context
Response(status, origin) == PipelineResponse(request, status, origin, ContextCreated)

\* os.urandom(n): n random bytes, of which the model keeps the number
urandom(n) == n

\* The threads that call get_random_bytes
Threads == 1..MaxThreads
NoCall == [pc |-> "idle", buffer_length |-> 0, returned |-> 0]

\* What a call of an operation ends with: a value returned or an error raised
Returned(value) == [kind |-> "return", value |-> value]
RaisedError(type) == [kind |-> "raise", value |-> type]

\* get has not been called
NoOperation ==
    [pc |-> "idle", status_code |-> 0, error_map |-> [given |-> "-", dict |-> <<>>],
     cls |-> FALSE,
     outcome |-> Returned("-")]

\* no with block has been left
NoExit ==
    [exc_details |-> NoResult, forwarded |-> NoResult, transport_returned |-> "None",
     returned |-> "None", escaped |-> NoResult]

\* no other Pipeline has been constructed
NoSecondPipeline == [built |-> FALSE, policies |-> <<>>, impl_policies |-> <<>>]

\* the other thread has not called run
NoOtherRun == [pc |-> "idle", node |-> NoNode, kwargs |-> <<>>, options |-> <<>>, sent |-> <<>>]

\* The state after Pipeline(transport, policies) for one of the arguments
InitWith(arguments) ==
    /\ policies \in arguments
    /\ impl_policies = ImplPolicies(PoliciesOrEmpty(policies), <<>>)
    /\ next = LinkTransport(impl_policies, LinkChain(impl_policies, 1, NoNext))
    /\ retry_total \in IF \E i \in DOMAIN impl_policies :
                             impl_policies[i].policy \in ChainingPolicies
                      THEN 1..MaxAttempts ELSE {1}
    /\ scope = "out" /\ scopes = 0 /\ enterCount = 0 /\ exitCount = 0
    /\ exit = NoExit
    /\ pc = "idle" /\ request = NoRequest /\ run_kwargs = <<>>
    /\ hasContext = FALSE /\ options = <<>>
    /\ stack = <<>> /\ ret = NoResult /\ result = NoResult /\ lastSend = NoSend
    /\ log = <<>> /\ sendCount = 0 /\ sendKwargs = <<>>
    /\ future = <<>> /\ subHooks = <<>> /\ subExc = <<>> /\ subCalls = <<>>
    /\ changesets = <<>>
    /\ serialized = FALSE
    /\ other = NoOtherRun
    /\ second = NoSecondPipeline
    /\ byte_buffer = [length |-> DEFAULT_LENGTH, data |-> urandom(DEFAULT_LENGTH)]
    /\ callers = [t \in Threads |-> NoCall]
    /\ operation = NoOperation

Init == InitWith(PolicyArguments)

\* ------------------------------------------------------------------ context manager
\* Pipeline.__enter__
Pipeline__enter__ == enterCount' = enterCount + 1

\* An __exit__ that does not reach the transport.
Pipeline__exit__noop == exitCount' = exitCount

\* Pipeline.__exit__
Pipeline__exit__ == exitCount' = exitCount + 1

NoRunActive == pc \in {"idle", "returned", "raised"}

\* with pipeline: ... is entered
WithEnter ==
    /\ scope = "out" /\ scopes < MaxScopes /\ NoRunActive
    /\ scope' = "in" /\ scopes' = scopes + 1
    /\ Pipeline__enter__
    /\ UNCHANGED <<other, chainVars, toolVars, exitCount, exit, pc, request, run_kwargs, hasContext, options,
                   stack, ret, lastSend, result, log, sendCount, sendKwargs,
                   multipartVars>>

\* What leaves the with block: nothing, or the exception the last run raised when
\* the block did not catch it.
ExcDetails == {NoResult} \cup (IF pc = "raised" THEN {result} ELSE {})

\* What the transport's __exit__ may return
TransportExitReturns == {"None", "True", "False"}

\* An __exit__ that calls the transport's __exit__ without the exception details.
ForwardedNothing(exc_details) == NoResult

\* self._transport.__exit__(*exc_details): the arguments the transport's __exit__ gets
Forwarded(exc_details) == exc_details

\* An __exit__ that returns what the transport's __exit__ returned.
Pipeline__exit__returns_transports(transport_returned) == transport_returned

\* Pipeline.__exit__ has no return statement: it returns None.
Pipeline__exit__returns(transport_returned) == "None"

\* The with statement: the exception that left the block goes on to the caller
\* unless __exit__ returned a true value.
Escapes(exc_details, returned) == IF returned = "True" THEN NoResult ELSE exc_details

\* the with block is left, normally or by an exception a run raised
WithExit ==
    /\ scope = "in" /\ NoRunActive
    /\ scope' = "out"
    /\ Pipeline__exit__
    /\ \E exc_details \in ExcDetails, transport_returned \in TransportExitReturns :
         LET returned == Pipeline__exit__returns(transport_returned)
         IN exit' = [exc_details |-> exc_details,
                     forwarded |-> Forwarded(exc_details),
                     transport_returned |-> transport_returned,
                     returned |-> returned,
                     escaped |-> Escapes(exc_details, returned)]
    /\ UNCHANGED <<other, chainVars, toolVars, scopes, enterCount, pc, request, run_kwargs, hasContext,
                   options, stack, ret, lastSend, result, log, sendCount,
                   sendKwargs, multipartVars>>

\* ------------------------------------------------------------------ run
\* The hooks and sends of the run that raised so far
Faults == Cardinality({i \in DOMAIN log : log[i].outcome # "return"})

\* What a hook may do next: return, or raise while the run's faults allow it
HookMay == IF Faults < MaxFaults THEN HookOutcomes ELSE {"return"}

\* A context kept from call to call: the new call's options are added to the
\* options of the context `last` of an earlier call.
PipelineContextReused(kw, last) ==
    [k \in DOMAIN last \cup DOMAIN kw |-> IF k \in DOMAIN kw THEN kw[k] ELSE last[k]]

\* PipelineContext(self._transport, **kwargs): the options of the new context are
\* the call's keyword arguments, and nothing of the context `last` of an earlier call.
PipelineContext(kw, last) == kw

\* Pipeline.run after _prepare_multipart: the context, the PipelineRequest and the
\* call of first_node.send
SendToFirstNode(kw, events) ==
    /\ hasContext' = TRUE
    /\ options' = PipelineContext(kw, options)
    /\ log' = events \o <<Step("context")>>
    /\ stack' = <<Frame(first_node)>>
    /\ pc' = "chain"

\* The send on top of the stack ends with r (a response or a raised exception),
\* having fired the hooks `fired` and got `got` from self.next.send; when it is
\* first_node.send, run ends with r too.
Finish(r, fired, got) ==
    /\ stack' = Pop
    /\ ret' = r
    /\ lastSend' = [node |-> Top.node, fired |-> fired, got |-> got, out |-> r]
    /\ IF Len(stack) = 1
       THEN /\ result' = r
            /\ pc' = IF r.kind = "response" THEN "returned" ELSE "raised"
       ELSE UNCHANGED <<result, pc>>

\* self.next.send(request) is called from the send on top of the stack.
CallNext(attempt, fired) ==
    /\ Top.node \in DOMAIN next
    /\ stack' = Append([stack EXCEPT ![Len(stack)] =
                            [Top EXCEPT !.phase = "wait", !.attempt = attempt,
                                        !.fired = fired]],
                       Frame(next[Top.node]))
    /\ ret' = NoResult

\* A bare except: it catches whatever self.next.send raised.
CaughtByBareExcept(r) == r.kind = "raise"

\* An except clause for the transport's failures only.
CaughtWhenSendRaised(r) ==
    r.kind = "raise" /\ r.cls = "Exception" /\ log[r.origin].ev = "send"

\* A runner without the except clause.
CaughtNever(r) == FALSE

\* except Exception: what the try block of the runner catches
CaughtByExceptException(r) == r.kind = "raise" /\ r.cls = "Exception"

\* An except block that raises an exception of its own in place of the caught one.
RaiseNew(caught, outcome, event) ==
    Raised(IF outcome = "return" THEN "Exception" ELSE outcome, event)

\* An except block that re-raises the caught exception whatever on_exception did.
ReraiseCaught(caught, outcome, event) == caught

\* What leaves the except block: the bare raise re-raises the caught exception,
\* unless on_exception raised one of its own.
Reraise(caught, outcome, event) ==
    IF outcome = "return" THEN caught ELSE Raised(outcome, event)

\* A runner that raises for the error statuses after on_response.
ReturnResponseOrRaiseForStatus(response, outcome, event) ==
    IF outcome # "return" THEN Raised(outcome, event)
    ELSE IF response.status >= 400 THEN Raised("Exception", event)
    ELSE response

\* A runner that returns the response although on_response raised.
ReturnResponseAnyway(response, outcome, event) == response

\* What leaves send after on_response: return response, unless the hook raised.
ReturnResponse(response, outcome, event) ==
    IF outcome = "return" THEN response ELSE Raised(outcome, event)

\* a dict after the keys K were set to v
SetOptions(opts, K, v) == [k \in DOMAIN opts \cup K |-> IF k \in K THEN v ELSE opts[k]]

\* a dict after the key was popped (with a default: a missing key is no error)
PopOption(opts, key) == [k \in DOMAIN opts \ {key} |-> opts[k]]

\* context.options after on_request made the change c, writing the value v
ChangeOptions(opts, c, v) ==
    IF c.op = "set" THEN SetOptions(opts, {c.key}, v)
    ELSE IF c.op = "pop" THEN PopOption(opts, c.key)
    ELSE opts

\* context.options after on_request of a policy of the run made the change c
WriteOptions(opts, c) == ChangeOptions(opts, c, PolicyValue)

\* A runner that goes on to self.next.send although on_request raised.
OnRequestProceedsAnyway(outcome) == TRUE

\* on_request stands before the try block: send goes on to self.next.send only
\* when the hook returned.
OnRequestProceeds(outcome) == outcome = "return"

\* _SansIOHTTPPolicyRunner.send, line 96 to 98: on_request, then
\* self.next.send(request). The hook returns (it may have written an option into
\* the context) or raises, which ends send.
RunnerOnRequest ==
    /\ pc = "chain" /\ stack # <<>>
    /\ Top.node.kind = "runner" /\ Top.phase = "call"
    /\ \E outcome \in HookMay :
         IF OnRequestProceeds(outcome)
         THEN /\ CallNext(0, <<"on_request">>)
              /\ \E c \in OptionChanges(Top.node.policy) :
                    options' = WriteOptions(options, c)
              /\ log' = Append(log, Event("on_request", Top.node.id, Top.node.policy,
                                          outcome, 0))
              /\ UNCHANGED <<result, pc, lastSend>>
         ELSE /\ log' = Append(log, Event("on_request", Top.node.id, Top.node.policy,
                                          outcome, 0))
              /\ Finish(Raised(outcome, Len(log')), <<"on_request">>, NoResult)
              /\ UNCHANGED options
    /\ UNCHANGED <<other, chainVars, toolVars, scopeVars, request, run_kwargs, hasContext, sendCount,
                   sendKwargs, multipartVars>>

\* _SansIOHTTPPolicyRunner.send, lines 99 to 101: self.next.send raised an
\* Exception: on_exception, then raise.
RunnerOnException ==
    /\ pc = "chain" /\ stack # <<>>
    /\ Top.node.kind = "runner" /\ Top.phase = "wait"
    /\ CaughtByExceptException(ret)
    /\ \E outcome \in HookMay :
         /\ log' = Append(log, Event("on_exception", Top.node.id, Top.node.policy,
                                     outcome, 0))
         /\ Finish(Reraise(ret, outcome, Len(log')), Append(Top.fired, "on_exception"), ret)
    /\ UNCHANGED <<other, chainVars, toolVars, scopeVars, request, run_kwargs, hasContext, options,
                   sendCount, sendKwargs, multipartVars>>

\* _SansIOHTTPPolicyRunner.send, line 98: what self.next.send raised is not an
\* Exception, the except clause does not match and it leaves send as it is.
RunnerPropagate ==
    /\ pc = "chain" /\ stack # <<>>
    /\ Top.node.kind = "runner" /\ Top.phase = "wait"
    /\ ret.kind = "raise" /\ ~CaughtByExceptException(ret)
    /\ Finish(ret, Top.fired, ret)
    /\ UNCHANGED <<other, chainVars, toolVars, scopeVars, request, run_kwargs, hasContext, options, log,
                   sendCount, sendKwargs, multipartVars>>

\* _SansIOHTTPPolicyRunner.send, lines 102 and 103: self.next.send returned:
\* on_response, then return response.
RunnerOnResponse ==
    /\ pc = "chain" /\ stack # <<>>
    /\ Top.node.kind = "runner" /\ Top.phase = "wait"
    /\ ret.kind = "response"
    /\ \E outcome \in HookMay :
         /\ log' = Append(log, Event("on_response", Top.node.id, Top.node.policy,
                                     outcome, 0))
         /\ Finish(ReturnResponse(ret, outcome, Len(log')),
                   Append(Top.fired, "on_response"), ret)
    /\ UNCHANGED <<other, chainVars, toolVars, scopeVars, request, run_kwargs, hasContext, options,
                   sendCount, sendKwargs, multipartVars>>

\* What the transport's send does: it returns a response with some status, or
\* raises an Exception (connection, timeout) or an interrupt.
TransportOutcomes ==
    {[outcome |-> "return", status |-> st] : st \in Statuses}
        \cup {[outcome |-> cls, status |-> 0] : cls \in HookMay \ {"return"}}

\* A transport runner that raises for the error statuses.
TransportRunnerRaisesForStatus(t, event) ==
    IF t.outcome # "return" THEN Raised(t.outcome, event)
    ELSE IF t.status >= 400 THEN Raised("Exception", event)
    ELSE Response(t.status, event)

\* A transport runner that wraps what the transport raised in an exception of its
\* own (origin 0: no event of the log raised it).
TransportRunnerWrapsError(t, event) ==
    IF t.outcome = "return" THEN Response(t.status, event) ELSE Raised("Exception", 0)

\* A transport runner that puts a context of its own making into the response.
TransportRunnerNewContext(t, event) ==
    IF t.outcome = "return" THEN PipelineResponse(request, t.status, event, 0)
    ELSE Raised(t.outcome, event)

\* _TransportRunner.send, lines 128 to 132: what the transport returned is wrapped
\* in a PipelineResponse, whatever its status; what it raised leaves send as it is.
TransportRunnerResult(t, event) ==
    IF t.outcome = "return" THEN Response(t.status, event) ELSE Raised(t.outcome, event)

\* A runner that cleans a copy of the options and leaves the context's dict alone.
ContextOptionsUntouched(bag) == bag

\* request.context.options once _TransportRunner.send has called
\* cleanup_kwargs_for_transport on it: the dict itself is cleaned, and the same dict
\* is then unpacked into the transport's send.
ContextOptionsCleaned(bag) == cleanup_kwargs_for_transport(bag)

\* _TransportRunner.send: clean the context's options in place, call the
\* transport's send with them, wrap what it returns.
TransportSend ==
    /\ pc = "chain" /\ stack # <<>>
    /\ Top.node.kind = "transport"
    /\ options' = ContextOptionsCleaned(options)
    /\ sendCount' = sendCount + 1
    /\ sendKwargs' = Append(sendKwargs, [bag |-> options,
                                         kwargs |-> cleanup_kwargs_for_transport(options)])
    /\ \E t \in TransportOutcomes :
         /\ log' = Append(log, Event("send", sendCount', Top.node.policy, t.outcome,
                                     t.status))
         /\ Finish(TransportRunnerResult(t, Len(log')), <<>>, NoResult)
    /\ UNCHANGED <<other, chainVars, toolVars, scopeVars, request, run_kwargs, hasContext, multipartVars>>

\* The failures the retry policy answers with another attempt
RetryCatches(r) == r.kind = "raise" /\ r.cls = "Exception"

\* The retry policy's send: the first attempt.
RetrySend ==
    /\ pc = "chain" /\ stack # <<>>
    /\ Top.node.policy \in ChainingPolicies /\ Top.phase = "call"
    /\ CallNext(1, <<>>)
    /\ UNCHANGED <<other, chainVars, toolVars, scopeVars, request, run_kwargs, hasContext, options, result,
                   pc, lastSend, log, sendCount, sendKwargs, multipartVars>>

\* The retry policy's send after an attempt: return the response; after a failure
\* try again while attempts are left, else raise the last failure.
RetryAfterAttempt ==
    /\ pc = "chain" /\ stack # <<>>
    /\ Top.node.policy \in ChainingPolicies /\ Top.phase = "wait"
    /\ ret.kind # "none"
    /\ IF RetryCatches(ret) /\ Top.attempt < retry_total
       THEN CallNext(Top.attempt + 1, <<>>) /\ UNCHANGED <<result, pc, lastSend>>
       ELSE Finish(ret, <<>>, ret)
    /\ UNCHANGED <<other, chainVars, toolVars, scopeVars, request, run_kwargs, hasContext, options, log,
                   sendCount, sendKwargs, multipartVars>>

\* The position of a node in the chain
PositionOf(node) == CHOOSE i \in DOMAIN impl_policies : impl_policies[i] = node

\* The send of a policy that answers by itself: no self.next.send, a response of
\* its own with some status.
AnswerWithoutSend ==
    /\ pc = "chain" /\ stack # <<>>
    /\ Top.node.policy \in AnsweringPolicies /\ Top.phase = "call"
    /\ \E st \in Statuses :
         /\ log' = Append(log, Event("answer", PositionOf(Top.node), Top.node.policy,
                                     "return", st))
         /\ Finish(Response(st, Len(log')), <<>>, NoResult)
    /\ UNCHANGED <<other, chainVars, toolVars, scopeVars, request, run_kwargs, hasContext, options,
                   sendCount, sendKwargs, multipartVars>>

\* ------------------------------------------------------------------ another thread
\* The option bags the caller of the other thread passes
OtherCallOptions ==
    UNION {[K -> {OtherCallerValue}] :
              K \in {{}} \cup {{k} : k \in OptionKeys} \cup {OptionKeys}}

\* Pipeline.run called by another thread on the same Pipeline, with a request
\* without multipart information: a context of its own, then first_node.send.
OtherRun ==
    /\ other.pc \in {"idle", "done"}
    /\ \E kw \in OtherCallOptions :
         other' = [pc |-> "chain", node |-> first_node, kwargs |-> kw,
                   options |-> PipelineContext(kw, other.options), sent |-> <<>>]
    /\ UNCHANGED <<chainVars, toolVars, scopeVars, pc, request, run_kwargs, hasContext, options,
                   stack, ret, lastSend, result, log, sendCount, sendKwargs,
                   multipartVars>>

\* _SansIOHTTPPolicyRunner.send in the other thread, lines 96 to 98: on_request
\* (it may change the options of the context of its call), then self.next.send.
OtherOnRequest ==
    /\ other.pc = "chain" /\ other.node.kind = "runner" /\ other.sent = <<>>
    /\ \E c \in OptionChanges(other.node.policy) :
         other' = [other EXCEPT !.options = ChangeOptions(@, c, OtherPolicyValue),
                                !.node = next[other.node]]
    /\ UNCHANGED <<chainVars, toolVars, scopeVars, pc, request, run_kwargs, hasContext, options,
                   stack, ret, lastSend, result, log, sendCount, sendKwargs,
                   multipartVars>>

\* The retry policy's send in the other thread: its first attempt.
OtherRetrySend ==
    /\ other.pc = "chain" /\ other.node.kind = "chaining" /\ other.sent = <<>>
    /\ other' = [other EXCEPT !.node = next[other.node]]
    /\ UNCHANGED <<chainVars, toolVars, scopeVars, pc, request, run_kwargs, hasContext, options,
                   stack, ret, lastSend, result, log, sendCount, sendKwargs,
                   multipartVars>>

\* _TransportRunner.send in the other thread: the options of its call's context
\* are cleaned in place and passed to the transport's send, which returns. The
\* call stays at the transport runner, whose send has returned, until the node
\* that called it goes on; when the transport runner is first_node itself, run
\* returns.
OtherTransportSend ==
    /\ other.pc = "chain" /\ other.node.kind = "transport" /\ other.sent = <<>>
    /\ LET cleaned == cleanup_kwargs_for_transport(other.options)
       IN other' = [other EXCEPT !.options = cleaned, !.sent = <<cleaned>>,
                                 !.pc = IF other.node = first_node THEN "done"
                                        ELSE "chain"]
    /\ UNCHANGED <<chainVars, toolVars, scopeVars, pc, request, run_kwargs, hasContext, options,
                   stack, ret, lastSend, result, log, sendCount, sendKwargs,
                   multipartVars>>

\* The node whose self.next is this node: the one that called its send
CallerOf(node) == CHOOSE n \in DOMAIN next : next[n] = node

\* In the other thread the send of the node the call stands at has returned a
\* response to the node that called it
OtherSendReturned ==
    /\ other.pc = "chain" /\ other.sent # <<>>
    /\ other.node # first_node

\* The call of the other thread after the send of this node returned: run
\* returns when the node is first_node.
OtherReturnFrom(node) ==
    [other EXCEPT !.node = node,
                  !.pc = IF node = first_node THEN "done" ELSE "chain"]

\* _SansIOHTTPPolicyRunner.send in the other thread, lines 102 and 103:
\* self.next.send returned: on_response, then return response.
OtherOnResponse ==
    /\ OtherSendReturned
    /\ CallerOf(other.node).kind = "runner"
    /\ other' = OtherReturnFrom(CallerOf(other.node))
    /\ UNCHANGED <<chainVars, toolVars, scopeVars, pc, request, run_kwargs, hasContext, options,
                   stack, ret, lastSend, result, log, sendCount, sendKwargs,
                   multipartVars>>

\* The retry policy's send in the other thread after its attempt: the response
\* is returned.
OtherRetryAfterAttempt ==
    /\ OtherSendReturned
    /\ CallerOf(other.node).kind = "chaining"
    /\ other' = OtherReturnFrom(CallerOf(other.node))
    /\ UNCHANGED <<chainVars, toolVars, scopeVars, pc, request, run_kwargs, hasContext, options,
                   stack, ret, lastSend, result, log, sendCount, sendKwargs,
                   multipartVars>>

\* ------------------------------------------------------------------ multipart
Parts == 1..request.parts
Running == {k \in DOMAIN future : future[k] = "running"}
Pending == {k \in DOMAIN future : future[k] = "pending"}

\* What a hook of the multipart phase may do next: return, or raise while the
\* run's faults allow it
SubHookMay ==
    IF Cardinality({k \in DOMAIN future : future[k] = "failed"}) < MaxFaults
          /\ \A d \in DOMAIN changesets : changesets[d].pc \notin {"shutdown", "raised"}
    THEN HookOutcomes ELSE {"return"}

\* A changeset no task has begun to prepare: one future per part of its own
NotPrepared(req) ==
    [pc |-> "unstarted",
     future |-> [j \in 1..req.nparts |-> "pending"],
     calls |-> [j \in 1..req.nparts |-> <<>>],
     exc |-> [j \in 1..req.nparts |-> NoResult],
     ret |-> NoResult]

\* The part of the bundle at this level that is a changeset itself (level 0 is
\* the request given to run), if any
ChangesetAt(level) ==
    IF level >= request.depth THEN 0
    ELSE IF level = 0 THEN request.changeset ELSE 1

\* A prepare_requests that goes to the policies without preparing the changeset.
ChangesetPreparedAnyway(level, k) == TRUE

\* prepare_requests, lines 208-210: for a part that is a changeset,
\* _prepare_multipart_mixed_request(req) has returned before the context is made
\* and the policies of this level's list see the part.
ChangesetPrepared(level, k) ==
    k = ChangesetAt(level) => changesets[level + 1].pc = "done"

\* A test of the multipart information that never finds any.
HasMultipartNever(req) == FALSE

\* _prepare_multipart_mixed_request, lines 196 to 198: the request has multipart
\* information (if not, the method returns at once)
HasMultipart(req) == req.parts > 0

\* Pipeline.run is called with one of the requests and keyword arguments. Without multipart
\* information _prepare_multipart_mixed_request returns at once and run goes on to
\* first_node.send; with it, executor.map submits one prepare_requests per part.
RunWith(requests) ==
    /\ NoRunActive
    /\ \E req \in requests, kw \in CallOptions :
         /\ request' = req
         /\ run_kwargs' = kw
         /\ future' = [k \in 1..req.parts |-> "pending"]
         /\ subHooks' = [k \in 1..req.parts |-> 0]
         /\ subExc' = [k \in 1..req.parts |-> NoResult]
         /\ subCalls' = [k \in 1..req.parts |-> <<>>]
         /\ changesets' = [d \in 1..req.depth |-> NotPrepared(req)]
         /\ serialized' = FALSE
         /\ sendCount' = 0 /\ sendKwargs' = <<>>
         /\ ret' = NoResult /\ result' = NoResult /\ lastSend' = NoSend
         /\ IF ~HasMultipart(req)
            THEN SendToFirstNode(kw, <<Step("prepare_multipart_body")>>)
            ELSE /\ pc' = "multipart" /\ log' = <<>> /\ stack' = <<>>
                 /\ hasContext' = FALSE /\ options' = <<>>
    /\ UNCHANGED <<other, chainVars, toolVars, scopeVars>>

\* run with any request
Run == RunWith(Requests)

\* run with a request that has no multipart information
RunPlain == RunWith({NoRequest})

\* run with a request that has no multipart information, inside the with block
RunInScope == scope = "in" /\ RunPlain

\* The keyword arguments kept with the multipart information of a request
\* (info[3]), which are not the keyword arguments of run
BundleValue == "bundle"
pipeline_options == [k \in TransportKeys |-> BundleValue]

\* A prepare_requests that hands the sub-policies the context of the run.
PipelineContextOfRun(k) == [id |-> 0, transport |-> "transport", options |-> run_kwargs]

\* prepare_requests, lines 210-211: PipelineContext(None, **pipeline_options), made
\* for the part the task prepares and wrapped with it in a new PipelineRequest
PipelineContextOfPart(k) == [id |-> k, transport |-> "None", options |-> pipeline_options]

\* policy.on_request(pipeline_request) of the policy at this index of the bundle's
\* list, on the PipelineRequest of the part
HookCall(hook, policy, part, context) ==
    [hook |-> hook, policy |-> policy, part |-> part, context |-> context]

\* ThreadPoolExecutor() at line 216 is made without max_workers: the executor
\* takes min(32, os.cpu_count() + 4) worker threads, 8 with four processors and
\* never fewer than 5, and starts one per submitted task up to that number
max_workers == 8

\* The tasks of a bundle that wait in front of task k: the executor's queue is
\* first in, first out, so when a worker holds task k, workers have taken each of
\* them, and none has yet marked its future running
HeldBefore(pending, k) == {j \in pending : j < k}

\* A worker thread of the executor has taken a queued prepare_requests and marks
\* its future running (set_running_or_notify_cancel in the worker). The workers
\* take the tasks in the order of the parts but mark them running in any order:
\* a worker that took a later task may pass one that took an earlier task.
WorkerTake ==
    /\ pc \in {"multipart", "shutdown"}
    /\ \E k \in Pending :
         /\ Cardinality(Running) + Cardinality(HeldBefore(Pending, k)) < max_workers
         /\ future' = [future EXCEPT ![k] = "running"]
    /\ UNCHANGED <<other, chainVars, toolVars, scopeVars, pc, request, run_kwargs, hasContext, options,
                   stack, ret, lastSend, result, log, sendCount, sendKwargs, subHooks, subExc,
                   subCalls, changesets, serialized>>

\* prepare_requests, line 213-214: on_request of the next policy of the bundle's
\* list on this part; an exception ends the task and is kept in its future.
PrepareRequestsHook ==
    /\ pc \in {"multipart", "shutdown"}
    /\ \E k \in Running :
         /\ subHooks[k] < request.subpolicies
         /\ ChangesetPrepared(0, k)
         /\ subHooks' = [subHooks EXCEPT ![k] = @ + 1]
         /\ subCalls' = [subCalls EXCEPT ![k] = Append(@, HookCall("on_request", subHooks'[k],
                                                                  k, PipelineContextOfPart(k)))]
         /\ \E outcome \in SubHookMay :
              IF outcome = "return"
              THEN UNCHANGED <<future, subExc>>
              ELSE /\ future' = [future EXCEPT ![k] = "failed"]
                   /\ subExc' = [subExc EXCEPT ![k] = RaisedInPart(outcome, subHooks'[k], k)]
    /\ UNCHANGED <<other, chainVars, toolVars, scopeVars, pc, request, run_kwargs, hasContext, options,
                   stack, ret, lastSend, result, log, sendCount, sendKwargs, changesets,
                   serialized>>

\* prepare_requests returns: every policy of the list has seen the part.
PrepareRequestsReturn ==
    /\ pc \in {"multipart", "shutdown"}
    /\ \E k \in Running :
         /\ subHooks[k] = request.subpolicies
         /\ ChangesetPrepared(0, k)
         /\ future' = [future EXCEPT ![k] = "done"]
    /\ UNCHANGED <<other, chainVars, toolVars, scopeVars, pc, request, run_kwargs, hasContext, options,
                   stack, ret, lastSend, result, log, sendCount, sendKwargs, subHooks, subExc,
                   subCalls, changesets, serialized>>

\* A run that reads the first result only.
FirstResultRead == future[1] = "done"

\* A run that waits for the tasks and does not read what they raised.
AllResultsIgnored == \A k \in Parts : future[k] \in {"done", "failed"}

\* Every result of executor.map was read by the list comprehension
AllResultsRead == \A k \in Parts : future[k] = "done"

\* Results taken as they complete: any failed future raises.
ResultRaisesAsCompleted(k) == future[k] = "failed"

\* The list comprehension takes the results of executor.map in the order of the
\* parts, waiting for each: the result of part k raises when its future has
\* failed and the results before it were read (their futures are done).
ResultRaises(k) == future[k] = "failed" /\ \A j \in 1..(k - 1) : future[j] = "done"

\* The list comprehension reads the results in the order of the parts: the first
\* failed future, all earlier ones done, raises there, and the exception leaves
\* the iteration of executor.map. The futures are as they were: the iterator
\* has yet to cancel those no worker has marked running.
MapRaises ==
    /\ pc = "multipart"
    /\ \E k \in Parts :
         /\ ResultRaises(k)
         /\ ret' = subExc[k]
    /\ pc' = "shutdown"
    /\ UNCHANGED <<other, chainVars, toolVars, scopeVars, request, run_kwargs, hasContext, options,
                   stack, lastSend, result, log, sendCount, sendKwargs, multipartVars>>

\* The future the iterator of executor.map cancels next: it goes through the
\* futures it has not read from the last part to the first, and cancel() changes
\* a future only while it is pending, so the next one cancelled is the last of
\* the pending ones.
LastPending(pending) == CHOOSE k \in pending : \A j \in pending : j <= k

\* The iterator of executor.map, left by the exception, cancels one future that
\* no worker has marked running. Between two cancels the workers go on: one may
\* mark an earlier task running before the iterator comes to it.
MapCancels ==
    /\ pc = "shutdown" /\ Pending # {}
    /\ future' = [future EXCEPT ![LastPending(Pending)] = "cancelled"]
    /\ UNCHANGED <<other, chainVars, toolVars, scopeVars, pc, request, run_kwargs, hasContext, options,
                   stack, ret, lastSend, result, log, sendCount, sendKwargs, subHooks, subExc,
                   subCalls, changesets, serialized>>

\* executor.__exit__ has waited for the running tasks, after the iterator has
\* cancelled the others; the exception leaves run.
ShutdownRaises ==
    /\ pc = "shutdown" /\ Running = {} /\ Pending = {}
    /\ result' = ret
    /\ pc' = "raised"
    /\ UNCHANGED <<other, chainVars, toolVars, scopeVars, request, run_kwargs, hasContext, options,
                   stack, ret, lastSend, log, sendCount, sendKwargs, multipartVars>>

\* _prepare_multipart, line 228, and the rest of run: all results were read, the
\* composite body is serialized, the context is made and first_node.send is called.
PrepareMultipartBody ==
    /\ pc = "multipart" /\ AllResultsRead
    /\ serialized' = TRUE
    /\ SendToFirstNode(run_kwargs, Append(log, Step("prepare_multipart_body")))
    /\ UNCHANGED <<other, chainVars, toolVars, scopeVars, request, run_kwargs, ret, lastSend, result,
                   sendCount, sendKwargs, future, subHooks, subExc, subCalls, changesets>>

\* ------------------------------------------------------------------ changesets
\* The task that prepares the changeset of level d is running
ParentRunning(d) ==
    IF d = 1 THEN future[request.changeset] = "running"
    ELSE changesets[d - 1].future[1] = "running"

NestedParts == 1..request.nparts
NestedRunning(d) == {j \in NestedParts : changesets[d].future[j] = "running"}
NestedPending(d) == {j \in NestedParts : changesets[d].future[j] = "pending"}

\* The number that identifies part j of the changeset of level d in an exception
PartId(d, j) == d * (MaxParts + MaxNestedParts) + j

\* on_request of policy i of the list of the changeset of level d, on its part j,
\* with the PipelineRequest and context made for that part
NestedHookCall(d, i, j) ==
    [hook |-> "on_request", list |-> d, policy |-> i, part |-> j,
     context |-> [id |-> PartId(d, j), transport |-> "None", options |-> pipeline_options]]

UnchangedByChangeset ==
    UNCHANGED <<other, chainVars, toolVars, scopeVars, pc, request, run_kwargs, hasContext, options,
                stack, ret, lastSend, result, log, sendCount, sendKwargs, subHooks,
                subCalls, serialized>>

\* prepare_requests of a changeset part, line 210: the recursive call
\* _prepare_multipart_mixed_request(req) submits one task per part of the changeset
\* to an executor of its own.
NestedMap ==
    /\ pc \in {"multipart", "shutdown"}
    /\ \E d \in DOMAIN changesets :
         /\ ParentRunning(d) /\ changesets[d].pc = "unstarted"
         /\ changesets' = [changesets EXCEPT ![d].pc = "map"]
    /\ UNCHANGED <<future, subExc>>
    /\ UnchangedByChangeset

\* A worker thread of the changeset's executor has taken a queued task and marks
\* its future running, in any order among the workers that hold a task.
NestedWorkerTake ==
    /\ pc \in {"multipart", "shutdown"}
    /\ \E d \in DOMAIN changesets :
         /\ changesets[d].pc \in {"map", "shutdown"}
         /\ \E j \in NestedPending(d) :
              /\ Cardinality(NestedRunning(d))
                    + Cardinality(HeldBefore(NestedPending(d), j)) < max_workers
              /\ changesets' = [changesets EXCEPT ![d].future[j] = "running"]
    /\ UNCHANGED <<future, subExc>>
    /\ UnchangedByChangeset

\* prepare_requests of a part of a changeset in its worker thread, line 213-214:
\* on_request of the next policy of the changeset's list on this part; an
\* exception ends the task and is kept in its future.
NestedPrepareRequestsHook ==
    /\ pc \in {"multipart", "shutdown"}
    /\ \E d \in DOMAIN changesets : \E j \in NestedRunning(d) :
         /\ Len(changesets[d].calls[j]) < request.subpolicies
         /\ ChangesetPrepared(d, j)
         /\ LET i == Len(changesets[d].calls[j]) + 1
            IN \E outcome \in SubHookMay :
                 changesets' =
                    IF outcome = "return"
                    THEN [changesets EXCEPT
                            ![d].calls[j] = Append(@, NestedHookCall(d, i, j))]
                    ELSE [changesets EXCEPT
                            ![d].calls[j] = Append(@, NestedHookCall(d, i, j)),
                            ![d].future[j] = "failed",
                            ![d].exc[j] = RaisedInPart(outcome, i, PartId(d, j))]
    /\ UNCHANGED <<future, subExc>>
    /\ UnchangedByChangeset

\* prepare_requests of a part of a changeset returns: every policy of the
\* changeset's list has seen the part.
NestedPrepareRequestsReturn ==
    /\ pc \in {"multipart", "shutdown"}
    /\ \E d \in DOMAIN changesets : \E j \in NestedRunning(d) :
         /\ Len(changesets[d].calls[j]) = request.subpolicies
         /\ ChangesetPrepared(d, j)
         /\ changesets' = [changesets EXCEPT ![d].future[j] = "done"]
    /\ UNCHANGED <<future, subExc>>
    /\ UnchangedByChangeset

\* The list comprehension of the recursive call reads a failed result: the
\* exception leaves the iteration of the changeset's executor.map.
NestedMapRaises ==
    /\ pc \in {"multipart", "shutdown"}
    /\ \E d \in DOMAIN changesets :
         /\ changesets[d].pc = "map"
         /\ \E k \in NestedParts :
              /\ changesets[d].future[k] = "failed"
              /\ \A h \in 1..(k - 1) : changesets[d].future[h] = "done"
              /\ changesets' =
                [changesets EXCEPT
                   ![d].pc = "shutdown",
                   ![d].ret = changesets[d].exc[k]]
    /\ UNCHANGED <<future, subExc>>
    /\ UnchangedByChangeset

\* The iterator of the changeset's executor.map cancels one future that no
\* worker has marked running: the last of the pending ones.
NestedMapCancels ==
    /\ pc \in {"multipart", "shutdown"}
    /\ \E d \in DOMAIN changesets :
         /\ changesets[d].pc = "shutdown" /\ NestedPending(d) # {}
         /\ changesets' =
               [changesets EXCEPT ![d].future[LastPending(NestedPending(d))] = "cancelled"]
    /\ UNCHANGED <<future, subExc>>
    /\ UnchangedByChangeset

\* The changeset's executor has shut down; the exception leaves the recursive
\* call and with it the task that made the call: its future fails.
NestedShutdownRaises ==
    /\ pc \in {"multipart", "shutdown"}
    /\ \E d \in DOMAIN changesets :
         /\ changesets[d].pc = "shutdown"
         /\ NestedRunning(d) = {} /\ NestedPending(d) = {}
         /\ IF d = 1
            THEN /\ future' = [future EXCEPT ![request.changeset] = "failed"]
                 /\ subExc' = [subExc EXCEPT ![request.changeset] = changesets[d].ret]
                 /\ changesets' = [changesets EXCEPT ![d].pc = "raised"]
            ELSE /\ changesets' = [changesets EXCEPT ![d].pc = "raised",
                                                     ![d - 1].future[1] = "failed",
                                                     ![d - 1].exc[1] = changesets[d].ret]
                 /\ UNCHANGED <<future, subExc>>
    /\ UnchangedByChangeset

\* Every result of the changeset's executor.map was read: the recursive call
\* returns to prepare_requests.
NestedReturns ==
    /\ pc \in {"multipart", "shutdown"}
    /\ \E d \in DOMAIN changesets :
         /\ changesets[d].pc = "map"
         /\ \A j \in NestedParts : changesets[d].future[j] = "done"
         /\ changesets' = [changesets EXCEPT ![d].pc = "done"]
    /\ UNCHANGED <<future, subExc>>
    /\ UnchangedByChangeset

\* Requests in which one part is a changeset, whose first part may be a
\* changeset again, down to some depth; every bundle has as many parts and as
\* many policies in its list as the outermost one
NestedRequests ==
    {[parts |-> k, subpolicies |-> m, changeset |-> c, depth |-> d, nparts |-> k] :
        k \in 1..MaxNestedParts, m \in 0..MaxSubPolicies, c \in 1..MaxNestedParts,
        d \in 1..MaxDepth}

\* run, without keyword arguments, with a request that holds a changeset
RunNested ==
    /\ RunWith({req \in NestedRequests : req.changeset <= req.parts})
    /\ run_kwargs' = <<>>

\* ------------------------------------------------------------------ specification
\* Runs of requests without multipart information through every chain.
Next ==
    \/ RunPlain
    \/ RunnerOnRequest
    \/ RunnerOnException
    \/ RunnerPropagate
    \/ RunnerOnResponse
    \/ TransportSend
    \/ RetrySend
    \/ RetryAfterAttempt

Spec == Init /\ [][Next]_vars

\* Pipelines with a short chain: at most one policy.
InitShort == Init /\ Len(policies.list) <= 1

\* Pipelines with a short chain of simple policies: no list, an empty list, or
\* one SansIOHTTPPolicy.
InitSimple == InitShort /\ \A i \in DOMAIN policies.list : policies.list[i] \in SansIOPolicies

\* Runs of every request, multipart ones included, through the short chains of
\* simple policies.
NextMultipart ==
    \/ Run
    \/ WorkerTake
    \/ PrepareRequestsHook
    \/ PrepareRequestsReturn
    \/ MapRaises
    \/ MapCancels
    \/ ShutdownRaises
    \/ PrepareMultipartBody
    \/ RunnerOnRequest
    \/ RunnerOnException
    \/ RunnerPropagate
    \/ RunnerOnResponse
    \/ TransportSend

SpecMultipart == InitSimple /\ [][NextMultipart]_vars

\* The Pipeline used as a context manager around runs through the short chains.
NextScope ==
    \/ WithEnter
    \/ WithExit
    \/ RunInScope
    \/ RunnerOnRequest
    \/ RunnerOnException
    \/ RunnerPropagate
    \/ RunnerOnResponse
    \/ TransportSend
    \/ RetrySend
    \/ RetryAfterAttempt

SpecScope == InitShort /\ [][NextScope]_vars

\* Pipelines with a short chain: no list, an empty list, or one policy, which
\* flags redirects, writes options or retries
ConcurrentArguments ==
    {[given |-> FALSE, list |-> <<>>]}
        \cup {[given |-> TRUE, list |-> l] :
                 l \in SeqsUpTo(SansIOPolicies \cup ChainingPolicies, 1)}

InitConcurrent == InitWith(ConcurrentArguments)

\* Two threads that call run on one Pipeline with a short chain.
NextConcurrent ==
    \/ RunPlain
    \/ RunnerOnRequest
    \/ RunnerOnException
    \/ RunnerPropagate
    \/ RunnerOnResponse
    \/ TransportSend
    \/ RetrySend
    \/ RetryAfterAttempt
    \/ OtherRun
    \/ OtherOnRequest
    \/ OtherRetrySend
    \/ OtherTransportSend
    \/ OtherOnResponse
    \/ OtherRetryAfterAttempt

SpecConcurrent == InitConcurrent /\ [][NextConcurrent]_vars

\* Policy lists with one chaining policy, the retry policy or the one that
\* answers by itself, among simple policies
ChainingArguments ==
    {[given |-> TRUE, list |-> l] :
        l \in {c \in SeqsUpTo(RedirectPolicies \cup ChainingPolicies \cup AnsweringPolicies,
                              MaxPolicies) :
                  Cardinality({i \in DOMAIN c : c[i] \notin SansIOPolicies}) = 1}}

InitChaining == InitWith(ChainingArguments)

\* Runs through the chains with one chaining policy.
NextChaining ==
    \/ RunPlain
    \/ RunnerOnRequest
    \/ RunnerOnException
    \/ RunnerPropagate
    \/ RunnerOnResponse
    \/ TransportSend
    \/ RetrySend
    \/ RetryAfterAttempt
    \/ AnswerWithoutSend

SpecChaining == InitChaining /\ [][NextChaining]_vars

\* Policy lists with entries that are None among the policies
FalsyArguments ==
    {[given |-> TRUE, list |-> l] :
        l \in {c \in SeqsUpTo(PolicyObjects \cup {"None"}, MaxPolicies) :
                  \E i \in DOMAIN c : c[i] = "None"}}

InitFalsy == InitWith(FalsyArguments)

\* Runs through the chains built from lists with None entries.
NextFalsy ==
    \/ RunPlain
    \/ RunnerOnRequest
    \/ RunnerOnException
    \/ RunnerPropagate
    \/ RunnerOnResponse
    \/ TransportSend
    \/ RetrySend
    \/ RetryAfterAttempt

SpecFalsy == InitFalsy /\ [][NextFalsy]_vars

\* Runs of requests with changesets on a Pipeline without policies.
InitNested == Init /\ ~policies.given

NextNested ==
    \/ RunNested
    \/ WorkerTake
    \/ PrepareRequestsHook
    \/ PrepareRequestsReturn
    \/ MapRaises
    \/ MapCancels
    \/ ShutdownRaises
    \/ PrepareMultipartBody
    \/ NestedMap
    \/ NestedWorkerTake
    \/ NestedPrepareRequestsHook
    \/ NestedPrepareRequestsReturn
    \/ NestedMapRaises
    \/ NestedMapCancels
    \/ NestedShutdownRaises
    \/ NestedReturns
    \/ TransportSend

\* What the threads of a run do: every step but the caller's next call of run
RunSteps ==
    \/ WorkerTake
    \/ PrepareRequestsHook
    \/ PrepareRequestsReturn
    \/ MapRaises
    \/ MapCancels
    \/ ShutdownRaises
    \/ PrepareMultipartBody
    \/ NestedMap
    \/ NestedWorkerTake
    \/ NestedPrepareRequestsHook
    \/ NestedPrepareRequestsReturn
    \/ NestedMapRaises
    \/ NestedMapCancels
    \/ NestedShutdownRaises
    \/ NestedReturns
    \/ TransportSend

\* The threads of a run are scheduled: a run that can take a step takes one.
SpecNested == InitNested /\ [][NextNested]_vars /\ WF_vars(RunSteps)

\* ------------------------------------------------------------------ get_random_bytes
\* The lengths asked for: none, one byte, around the default length and above it
Lengths == {0, 1, DEFAULT_LENGTH - 1} \cup (DEFAULT_LENGTH..(DEFAULT_LENGTH + MaxGrowth))

\* data[:n] of a buffer of this many bytes, n >= 0
Slice(data, n) == IF n <= data THEN n ELSE data

PipelineUnchanged ==
    UNCHANGED <<other, chainVars, scopeVars, pc, request, run_kwargs, hasContext, options,
                stack, ret, lastSend, result, log, sendCount, sendKwargs, multipartVars,
                operation>>

\* A thread calls get_random_bytes(buffer_length).
GetRandomBytes ==
    /\ \E t \in Threads, n \in Lengths :
         /\ callers[t].pc \in {"idle", "done"}
         /\ callers' = [callers EXCEPT ![t] = [pc |-> "test", buffer_length |-> n,
                                               returned |-> 0]]
    /\ UNCHANGED byte_buffer
    /\ PipelineUnchanged

\* line 14: if buffer_length > _BYTE_BUFFER[0]
TestLength ==
    /\ \E t \in Threads :
         /\ callers[t].pc = "test"
         /\ callers' = [callers EXCEPT ![t].pc =
                            IF callers[t].buffer_length > byte_buffer.length
                            THEN "store buffer" ELSE "return"]
    /\ UNCHANGED byte_buffer
    /\ PipelineUnchanged

\* line 15: _BYTE_BUFFER[1] = os.urandom(buffer_length)
StoreBuffer ==
    /\ \E t \in Threads :
         /\ callers[t].pc = "store buffer"
         /\ byte_buffer' = [byte_buffer EXCEPT !.data = urandom(callers[t].buffer_length)]
         /\ callers' = [callers EXCEPT ![t].pc = "store length"]
    /\ PipelineUnchanged

\* line 16: _BYTE_BUFFER[0] = buffer_length
StoreLength ==
    /\ \E t \in Threads :
         /\ callers[t].pc = "store length"
         /\ byte_buffer' = [byte_buffer EXCEPT !.length = callers[t].buffer_length]
         /\ callers' = [callers EXCEPT ![t].pc = "return"]
    /\ PipelineUnchanged

\* line 17: return _BYTE_BUFFER[1][:buffer_length]
ReturnSlice ==
    /\ \E t \in Threads :
         /\ callers[t].pc = "return"
         /\ callers' = [callers EXCEPT
                          ![t].pc = "done",
                          ![t].returned = Slice(byte_buffer.data, callers[t].buffer_length)]
    /\ UNCHANGED byte_buffer
    /\ PipelineUnchanged

\* Threads that call get_random_bytes, each statement of a call a step.
NextRandomBytes ==
    \/ GetRandomBytes
    \/ TestLength
    \/ StoreBuffer
    \/ StoreLength
    \/ ReturnSlice

SpecRandomBytes == InitNested /\ [][NextRandomBytes]_vars

\* ------------------------------------------------------------------ operations
\* The status codes of the responses the pipeline hands to the operation
StatusCodes == {200, 201, 204, 304, 400, 401, 404, 409, 500}

\* The error_map keyword argument of a call: absent ("-"), None, or a dict that
\* maps some status codes to the caller's error type or to None
CallerErrorMaps ==
    {[given |-> g, dict |-> <<>>] : g \in {"-", "None"}}
        \cup {[given |-> "dict", dict |-> d] :
                 d \in UNION {[K -> {"CallerError"}] :
                                 K \in {{}, {404}, {500}, {404, 500}, {200, 304}}}
                          \cup [{409} -> {"None"}]}

\* kwargs.pop("error_map", {}) or {}
PoppedErrorMap(given) == IF given.given \in {"-", "None"} THEN <<>> ELSE given.dict

\* An error_map in which the defaults replace the caller's entries.
ErrorMapDefaultsLast(given) ==
    LET defaults == (401 :> "ClientAuthenticationError") @@ (404 :> "ResourceNotFoundError")
                       @@ (409 :> "ResourceExistsError") @@ (304 :> "ResourceNotModifiedError")
    IN defaults @@ PoppedErrorMap(given)

\* get, lines 415-421: the default error_map, updated with the caller's
ErrorMap(given) ==
    LET defaults == (401 :> "ClientAuthenticationError") @@ (404 :> "ResourceNotFoundError")
                       @@ (409 :> "ResourceExistsError") @@ (304 :> "ResourceNotModifiedError")
    IN PoppedErrorMap(given) @@ defaults

\* map_error(status_code, response, error_map) of azure.core.exceptions: raises
\* the error type the map has for the status code, returns when it has none
map_error(status_code, error_map) ==
    IF status_code \in DOMAIN error_map /\ error_map[status_code] # "None"
    THEN RaisedError(error_map[status_code])
    ELSE Returned("None")

\* A get that takes every 2xx status for a success.
GetAcceptsEvery2xx(status_code, given, cls) ==
    IF status_code \notin 200..299
    THEN LET mapped == map_error(status_code, ErrorMap(given))
         IN IF mapped.kind = "raise" THEN mapped ELSE RaisedError("HttpResponseError")
    ELSE IF cls THEN Returned("cls(deserialized)") ELSE Returned("deserialized")

\* get, lines 446-456, with the response of the pipeline's run: any status but
\* 200 goes to map_error and, if that returns, raises HttpResponseError; with 200
\* the body is deserialized and returned, through cls when the caller gave one.
Get(status_code, given, cls) ==
    IF status_code \notin {200}
    THEN LET mapped == map_error(status_code, ErrorMap(given))
         IN IF mapped.kind = "raise" THEN mapped ELSE RaisedError("HttpResponseError")
    ELSE IF cls THEN Returned("cls(deserialized)") ELSE Returned("deserialized")

\* AzureMonitorWorkspacesOperations.get is called and the pipeline's run returns a
\* response with some status code.
OperationGet ==
    /\ \E status_code \in StatusCodes, given \in CallerErrorMaps, cls \in BOOLEAN :
         operation' = [pc |-> "done", status_code |-> status_code, error_map |-> given,
                       cls |-> cls, outcome |-> Get(status_code, given, cls)]
    /\ UNCHANGED <<other, chainVars, scopeVars, pc, request, run_kwargs, hasContext, options,
                   stack, ret, lastSend, result, log, sendCount, sendKwargs, multipartVars,
                   byte_buffer, callers>>

NextOperation == OperationGet

SpecOperation == InitNested /\ [][NextOperation]_vars

\* ------------------------------------------------------------------ a second Pipeline
\* The policy lists given to the second Pipeline: the objects of the first one's
\* list (the simple policy, the chaining policy), in lists of any order.
SecondArguments ==
    {[given |-> TRUE, list |-> l] : l \in SeqsUpTo(PolicyObjects, MaxSecondPolicies)}

\* The second constructor's node for an entry of its list: a runner of its own
\* for a SansIOHTTPPolicy, the policy object itself otherwise.
SecondNode(node) ==
    IF node.kind = "runner" THEN RunnerNode(MaxPolicies + node.id, node.policy) ELSE node

SecondImplPolicies(list) ==
    LET impl == ImplPolicies(list, <<>>) IN [i \in DOMAIN impl |-> SecondNode(impl[i])]

\* Pipeline.__init__ of the second Pipeline, last statement
SecondLinkTransport(impl, nxt) ==
    IF impl # <<>> THEN SetNext(nxt, impl[Len(impl)], SecondTransportRunner) ELSE nxt

\* Pipeline(second_transport, policies): the constructor runs again, on a list
\* with objects of the first list; it assigns the next attribute of its nodes.
ConstructSecond ==
    /\ ~second.built /\ NoRunActive
    /\ \E arg \in SecondArguments :
         LET impl == SecondImplPolicies(PoliciesOrEmpty(arg))
         IN /\ second' = [built |-> TRUE, policies |-> arg.list, impl_policies |-> impl]
            /\ next' = SecondLinkTransport(impl, LinkChain(impl, 1, next))
    /\ UNCHANGED <<other, toolVars, policies, impl_policies, retry_total, scopeVars, pc, request,
                   run_kwargs, hasContext, options, stack, ret, lastSend, result, log,
                   sendCount, sendKwargs, multipartVars>>

\* Runs on the first Pipeline, before and after a second one is constructed.
NextTwoPipelines ==
    \/ ConstructSecond
    \/ RunPlain
    \/ RunnerOnRequest
    \/ RunnerOnException
    \/ RunnerPropagate
    \/ RunnerOnResponse
    \/ TransportSend
    \/ RetrySend
    \/ RetryAfterAttempt

SpecTwoPipelines == InitShort /\ [][NextTwoPipelines]_vars

\* ------------------------------------------------------------------ observations
IsPrefix(a, b) == Len(a) <= Len(b) /\ \A i \in DOMAIN a : a[i] = b[i]

\* The run has ended: run returned a PipelineResponse or raised.
RunEnded == pc \in {"returned", "raised"}

\* The chain's part of the log: what follows prepare_multipart_body and the context.
ChainLog == SubSeq(log, 3, Len(log))
ChainShape == [i \in DOMAIN ChainLog |-> <<ChainLog[i].ev, ChainLog[i].at>>]

HookEvents == {i \in DOMAIN log : log[i].ev \in {"on_request", "on_response", "on_exception"}}
SendEvents == {i \in DOMAIN log : log[i].ev = "send"}
SendEvent(n) == CHOOSE i \in SendEvents : log[i].at = n
LastSendEvent == SendEvent(sendCount)

NoHookRaised == \A i \in HookEvents : log[i].outcome = "return"
NoSendRaised == \A i \in SendEvents : log[i].outcome = "return"
EverySendRaisedException == \A i \in SendEvents : log[i].outcome = "Exception"

\* The policy list holds SansIOHTTPPolicy instances only; n of them.
OnlySansIO == \A i \in DOMAIN policies.list : policies.list[i] \in SansIOPolicies
HasRetryPolicy == \E i \in DOMAIN impl_policies : impl_policies[i].kind = "chaining"
n_policies == Len(policies.list)

\* on_request(p1..pn), send, then `hook`(pn..p1)
DownAndUp(n, hook) ==
    [i \in 1..(2 * n + 1) |->
        IF i <= n THEN <<"on_request", i>>
        ELSE IF i = n + 1 THEN <<"send", 1>>
        ELSE <<hook, 2 * n + 2 - i>>]

\* ------------------------------------------------------------------ claims
\* C1: for a list of simple policies p1..pn and a run in which no hook and no
\* transport send raises, the events are exactly on_request(p1), ..., on_request(pn),
\* the send, on_response(pn), ..., on_response(p1): at every moment of the run the
\* events so far are a prefix of that order, the run returns, and at its end every
\* hook has fired once and no on_exception has fired.
C1_HookOrder ==
    (pc \in {"chain", "returned", "raised"} /\ OnlySansIO /\ NoHookRaised /\ NoSendRaised)
        => /\ IsPrefix(ChainShape, DownAndUp(n_policies, "on_response"))
           /\ pc # "raised"
           /\ pc = "returned" => ChainShape = DownAndUp(n_policies, "on_response")

C1_Witness ==
    /\ pc = "returned" /\ OnlySansIO /\ n_policies >= 2
    /\ NoHookRaised /\ NoSendRaised

\* C2, as stated: every finished send of a policy runner has fired on_request
\* first and once, and then exactly one of on_response and on_exception.
C2_ExactlyOneAlways ==
    lastSend.node.kind = "runner"
        => lastSend.fired \in {<<"on_request", "on_response">>, <<"on_request", "on_exception">>}

\* The hooks a runner's send fires, given what self.next.send gave it
\* (NoResult: it was not called, on_request raised)
FiredFor(got) ==
    <<"on_request">> \o
        (IF got.kind = "response" THEN <<"on_response">>
         ELSE IF got.kind = "raise" /\ got.cls = "Exception" THEN <<"on_exception">>
         ELSE <<>>)

\* C2, amended: every send of a policy runner fires on_request first and once and
\* never both on_response and on_exception; it fires on_response when
\* self.next.send returned, on_exception when it raised an Exception, and neither
\* when on_request raised (self.next.send is then not called) or self.next.send
\* raised something that is not an Exception.
C2_ExactlyOneUnlessAborted ==
    /\ lastSend.node.kind = "runner"
         => /\ lastSend.fired = FiredFor(lastSend.got)
            /\ lastSend.got.kind = "none"
                 <=> /\ lastSend.out.kind = "raise"
                     /\ log[lastSend.out.origin].ev = "on_request"
                     /\ log[lastSend.out.origin].at = lastSend.node.id
                     /\ Len(lastSend.fired) = 1
    /\ \A i \in DOMAIN stack :
         stack[i].node.kind = "runner"
            => stack[i].fired = IF stack[i].phase = "call" THEN <<>> ELSE <<"on_request">>

C2_Witness ==
    /\ lastSend.node.kind = "runner"
    /\ lastSend.got.kind = "raise" /\ lastSend.got.cls = "BaseException"
    /\ lastSend.fired = <<"on_request">>

\* C3: whatever options run was called with and whatever a policy wrote into the
\* context, the keyword arguments of every transport send hold none of
\* insecure_domain_change, enable_cae, tracing_options.
C3_NoInternalKeyReachesTransport ==
    \A i \in DOMAIN sendKwargs : DOMAIN sendKwargs[i].kwargs \cap kwargs_to_remove = {}

C3_Witness ==
    \E i \in DOMAIN sendKwargs :
        /\ kwargs_to_remove \subseteq DOMAIN sendKwargs[i].bag
        /\ sendKwargs[i].bag["insecure_domain_change"] = PolicyValue
        /\ sendKwargs[i].bag["enable_cae"] = CallerValue

\* The transport's send raised an Exception and every hook returned.
OnlyTransportFailed ==
    /\ sendCount = 1 /\ log[SendEvent(1)].outcome = "Exception"
    /\ NoHookRaised

\* C4: the chain holds only simple policies, the transport's send raises an
\* Exception E and the hooks return: on_exception fires on every policy in reverse
\* list order, no on_response fires, no response is produced, and run raises E,
\* the exception the send raised.
C4_TransportFailureUnwinds ==
    (OnlySansIO /\ OnlyTransportFailed)
        => /\ IsPrefix(ChainShape, DownAndUp(n_policies, "on_exception"))
           /\ ret.kind # "response" /\ pc # "returned"
           /\ pc = "raised"
                => /\ ChainShape = DownAndUp(n_policies, "on_exception")
                   /\ result = Raised("Exception", SendEvent(1))

C4_Witness ==
    /\ pc = "raised" /\ OnlySansIO /\ n_policies >= 2 /\ OnlyTransportFailed

\* C5: with a retry policy configured with retry_total attempts in the chain, a
\* transport whose send raises an Exception at every attempt, and hooks that
\* return: run raises the exception of the last send, and the transport's send
\* was called retry_total times.
C5_RetryExhausted ==
    (RunEnded /\ HasRetryPolicy /\ NoHookRaised /\ EverySendRaisedException)
        => /\ pc = "raised"
           /\ sendCount = retry_total
           /\ result = Raised("Exception", LastSendEvent)

C5_Witness ==
    /\ RunEnded /\ HasRetryPolicy /\ NoHookRaised /\ EverySendRaisedException
    /\ retry_total >= 2 /\ sendCount >= 2 /\ n_policies >= 2

\* C6: with a retry policy configured with at least 2 attempts, hooks that return,
\* a first send that raises an Exception and a second that returns: there is a
\* second send and no third, and run returns the response of the second send.
C6_RetryThenSuccess ==
    (RunEnded /\ HasRetryPolicy /\ retry_total >= 2 /\ NoHookRaised
        /\ log[SendEvent(1)].outcome = "Exception")
        => /\ sendCount >= 2
           /\ log[SendEvent(2)].outcome = "return"
                => /\ sendCount = 2
                   /\ pc = "returned"
                   /\ result = Response(log[SendEvent(2)].status, SendEvent(2))

C6_Witness ==
    /\ RunEnded /\ HasRetryPolicy /\ retry_total >= 2 /\ NoHookRaised
    /\ sendCount = 2
    /\ log[SendEvent(1)].outcome = "Exception" /\ log[SendEvent(2)].outcome = "return"
    /\ pc = "returned"

\* With an empty or absent policy list, a run that has ended called the
\* transport's send once and fired no hook of the chain; run returned the response
\* the transport returned or raised what the transport raised.
BareTransportRunner ==
    /\ hasContext
    /\ sendCount = 1 /\ HookEvents = {}
    /\ ChainShape = <<<<"send", 1>>>>
    /\ result = IF log[SendEvent(1)].outcome = "return"
                THEN Response(log[SendEvent(1)].status, SendEvent(1))
                ELSE Raised(log[SendEvent(1)].outcome, SendEvent(1))

\* The Pipeline was built with an empty or absent policy list and a run has ended
EmptyListRunEnded == PoliciesOrEmpty(policies) = <<>> /\ RunEnded

\* The run ended in the multipart preparation: on_request of a policy of the
\* bundle's list raised on a part, run raised that exception, and nothing was
\* sent
EndedInPreparation ==
    /\ request.parts > 0 /\ pc = "raised" /\ ~hasContext /\ ~serialized
    /\ sendCount = 0 /\ log = <<>>
    /\ \E k \in Parts : future[k] = "failed" /\ result = subExc[k]

\* C7: with an empty or absent policy list, every run of a request without
\* multipart information, and every run of a multipart request that got through
\* its preparation (every part prepared, the body serialized), calls the
\* transport's send once and fires no hook of a policy of the pipeline; run
\* returns the response the transport returned or raises what the transport
\* raised. A request without multipart information gets no hook at all. Every
\* other run is the run of a multipart request that ended in the preparation:
\* a policy of the bundle's list raised, run raised that exception and the
\* transport's send was not called.
C7_EmptyListIsTransportRunner ==
    EmptyListRunEnded
        => /\ (request.parts = 0 \/ serialized) => BareTransportRunner
           /\ request.parts = 0 => \A k \in DOMAIN subHooks : subHooks[k] = 0
           /\ (request.parts > 0 /\ serialized)
                 => \A k \in Parts : subHooks[k] = request.subpolicies
           /\ ~(request.parts = 0 \/ serialized) => EndedInPreparation

\* C7 as stated: with an empty or absent policy list every run, of whatever
\* request, calls the transport's send once, fires no hook of any policy and
\* ends with what the transport returned or raised.
C7_EveryRunIsOneSend ==
    EmptyListRunEnded
        => /\ BareTransportRunner
           /\ \A k \in DOMAIN subHooks : subHooks[k] = 0

\* A Pipeline without policies ran a multipart request of two parts through its
\* preparation, in which the policy of the bundle's list saw both parts, and
\* returned the transport's response.
C7_Witness ==
    /\ ~policies.given /\ RunEnded /\ hasContext /\ sendCount = 1
    /\ request.parts = 2 /\ request.subpolicies = 1 /\ serialized
    /\ result.kind = "response" /\ result.status = 404

\* C8: with the Pipeline used as a context manager, the transport's __enter__ was
\* called once per with block entered and its __exit__ once per with block left,
\* whatever runs were made inside and whether they returned or raised.
C8_EnterExitOncePerScope ==
    /\ enterCount = scopes
    /\ exitCount = scopes - (IF scope = "in" THEN 1 ELSE 0)

C8_Witness ==
    /\ scope = "out" /\ scopes = 1 /\ pc = "raised"
    /\ enterCount = 1 /\ exitCount = 1

\* C9: when prepare_multipart_body has serialized the composite body, every
\* sub-request has had on_request of every policy of the bundle's list, whatever
\* order the workers ran in.
C9_AllPartsPreparedBeforeBody ==
    serialized
        => \A k \in Parts : future[k] = "done" /\ subHooks[k] = request.subpolicies

C9_Witness ==
    serialized /\ request.parts >= 3 /\ request.subpolicies >= 2

\* C10: when the transport's last send of a run returned a response and no hook
\* raised, run returns a PipelineResponse with that response, whatever its status.
C10_StatusIsNotAnError ==
    (RunEnded /\ sendCount >= 1 /\ NoHookRaised /\ log[LastSendEvent].outcome = "return")
        => /\ pc = "returned"
           /\ result = Response(log[LastSendEvent].status, LastSendEvent)

C10_Witness ==
    /\ pc = "returned" /\ NoHookRaised /\ result.status = 500 /\ n_policies >= 2

Hooks == {"on_request", "on_response", "on_exception"}

\* The on_request events of the log that raised
RaisedOnRequest == {i \in DOMAIN log : log[i].ev = "on_request" /\ log[i].outcome # "return"}

\* C11: when on_request of the policy at position k raises, that call of the chain
\* goes no further: no transport send and no hook of a policy after position k
\* follows, unless a chaining policy above position k has started a new attempt
\* (on_request fired again at position k or before it). In a chain without a
\* chaining policy the transport's send is not invoked in the whole run and no
\* policy after position k fires any hook.
C11_RaisingOnRequestAborts ==
    \A i \in RaisedOnRequest :
        /\ \A j \in (i + 1)..Len(log) :
              (log[j].ev = "send" \/ (log[j].ev \in Hooks /\ log[j].at > log[i].at))
                 => \E m \in (i + 1)..(j - 1) :
                        log[m].ev = "on_request" /\ log[m].at <= log[i].at
        /\ ~HasRetryPolicy
             => /\ sendCount = 0
                /\ \A j \in HookEvents : log[j].at <= log[i].at

C11_Witness ==
    /\ pc = "raised" /\ OnlySansIO /\ n_policies >= 3 /\ sendCount = 0
    /\ \E i \in RaisedOnRequest : log[i].at = 2 /\ result = Raised(log[i].outcome, i)

\* The nodes met by following next from node, node included, at most fuel steps
RECURSIVE Walk(_, _)
Walk(node, fuel) ==
    IF node \notin DOMAIN next \/ fuel = 0 THEN <<node>>
    ELSE <<node>> \o Walk(next[node], fuel - 1)

\* The retained nodes in list order, an object listed more than once taken once
RECURSIVE Retained(_)
Retained(impl) ==
    IF impl = <<>> THEN <<>>
    ELSE LET front == Retained(SubSeq(impl, 1, Len(impl) - 1))
             node == impl[Len(impl)]
         IN IF \E i \in DOMAIN front : front[i] = node THEN front ELSE Append(front, node)

\* C12: for every policy list given to the constructor, a chaining policy object
\* listed more than once included, following next from the first node meets the
\* node of every retained policy once, in list order, and then one transport
\* runner, where it ends.
C12_ChainVisitsEveryPolicy ==
    Walk(first_node, Len(impl_policies) + 1) = Retained(impl_policies) \o <<TransportRunner>>

\* The keyword arguments kw without the three internal keys
WithoutInternalKeys(kw) == [k \in DOMAIN kw \ kwargs_to_remove |-> kw[k]]

\* The option bag holds nothing but what the caller of this call passed under
\* the same key and what a policy of this call wrote
OwnOptions(opts, kw, written) ==
    \A k \in DOMAIN opts : (k \in DOMAIN kw /\ opts[k] = kw[k]) \/ opts[k] = written

\* on_request of a policy has returned in the run
OnRequestReturned ==
    \E i \in DOMAIN log : log[i].ev = "on_request" /\ log[i].outcome = "return"

\* No policy of the chain changes an option that reaches the transport
NoWritingPolicy ==
    \A i \in DOMAIN impl_policies : impl_policies[i].policy \notin WritingPolicies

\* Every transport send of either call has received the keyword arguments given
\* to that call without the three internal keys
ExactlySupplied ==
    /\ \A i \in DOMAIN sendKwargs : sendKwargs[i].kwargs = WithoutInternalKeys(run_kwargs)
    /\ \A i \in DOMAIN other.sent : other.sent[i] = WithoutInternalKeys(other.kwargs)

\* C13: two threads call run on one Pipeline, one call after another and at the
\* same time. Each call has a context of its own: until a policy of the call has
\* had on_request, its options are the keyword arguments given to the call;
\* every transport send of a call receives the options of that call's context
\* without the three internal keys; the option bag of a call's context, and what
\* its sends received, hold only what that call's caller passed and what that
\* call's policies wrote, and lack a key the caller passed only when a policy of
\* that call had on_request or the transport runner removed it; and where no
\* policy of the chain changes an option that reaches the transport, every send
\* receives exactly what was given to its call without the three internal keys.
C13_CallsHaveOwnContext ==
    /\ (pc = "chain" /\ ~OnRequestReturned /\ sendCount = 0) => options = run_kwargs
    /\ (other.pc = "chain" /\ other.node = first_node /\ other.sent = <<>>)
          => other.options = other.kwargs
    /\ \A i \in DOMAIN sendKwargs :
          /\ sendKwargs[i].kwargs = WithoutInternalKeys(sendKwargs[i].bag)
          /\ OwnOptions(sendKwargs[i].bag, run_kwargs, PolicyValue)
    /\ \A i \in DOMAIN other.sent :
          /\ other.sent[i] = WithoutInternalKeys(other.options)
          /\ OwnOptions(other.sent[i], other.kwargs, OtherPolicyValue)
    /\ OwnOptions(options, run_kwargs, PolicyValue)
    /\ OwnOptions(other.options, other.kwargs, OtherPolicyValue)
    /\ \A k \in DOMAIN options : options[k] = PolicyValue => OnRequestReturned
    /\ \A k \in DOMAIN run_kwargs \ DOMAIN options :
          OnRequestReturned \/ (k \in kwargs_to_remove /\ sendCount >= 1)
    /\ NoWritingPolicy => ExactlySupplied

\* C13 as stated: whatever the policies of a call do to the options of its context,
\* every transport send of a call receives exactly the keyword arguments given to
\* that call without the three internal keys.
C13_ExactlySuppliedAlways ==
    /\ C13_CallsHaveOwnContext
    /\ ExactlySupplied

\* Both calls are in the chain of one writing policy: in the main call, made
\* without options, the policy set the timeout, and the transport received it; in
\* the other call the policy popped the timeout its caller had passed.
C13_Witness ==
    /\ pc = "chain" /\ other.pc = "chain"
    /\ run_kwargs = <<>> /\ sendCount = 1
    /\ sendKwargs[1].kwargs = [k \in {"connection_timeout"} |-> PolicyValue]
    /\ "connection_timeout" \in DOMAIN other.kwargs
    /\ other.sent = <<PopOption(other.kwargs, "connection_timeout")>>
    /\ DOMAIN other.sent[1] = {}

\* C14: when the context of a run exists, or a hook of the main chain or a
\* transport send has happened, the multipart phase is over: every sub-request
\* has had on_request of every policy of the bundle's list and the composite body
\* is serialized; the log of the run starts with prepare_multipart_body and the
\* creation of the context, and the chain's hooks and sends come after them. A
\* request without multipart information has no sub-request and fires no
\* sub-policy hook.
C14_MultipartPhaseFirst ==
    /\ (HookEvents \cup SendEvents # {}) => hasContext
    /\ hasContext
         => /\ \A k \in 1..request.parts :
                  future[k] = "done" /\ subHooks[k] = request.subpolicies
            /\ request.parts > 0 => serialized
            /\ Len(log) >= 2
            /\ log[1].ev = "prepare_multipart_body" /\ log[2].ev = "context"
            /\ HookEvents \cup SendEvents = 3..Len(log)
    /\ request.parts = 0 => DOMAIN subHooks = {} /\ ~serialized

C14_Witness ==
    /\ hasContext /\ request.parts >= 2 /\ request.subpolicies >= 1
    /\ sendCount = 1 /\ HookEvents # {} /\ pc = "returned"

\* C15: the PipelineResponse the transport runner returns holds the http_request
\* of the run's PipelineRequest, the response of that transport send and the
\* context run created; a policy runner whose on_response returns hands on the
\* PipelineResponse it got from self.next.send; and the PipelineResponse run
\* returns is the one the transport runner built at the last send.
C15_ResponseTriple ==
    /\ (lastSend.node.kind = "transport" /\ lastSend.out.kind = "response")
         => /\ lastSend.out.origin = LastSendEvent
            /\ log[LastSendEvent].outcome = "return"
            /\ lastSend.out.status = log[LastSendEvent].status
            /\ lastSend.out.http_request = request
            /\ lastSend.out.context = ContextCreated
    /\ (lastSend.node.kind = "runner" /\ lastSend.out.kind = "response")
         => lastSend.out = lastSend.got
    /\ pc = "returned"
         => /\ result.kind = "response"
            /\ result.origin = LastSendEvent
            /\ result.status = log[LastSendEvent].status
            /\ result.http_request = request
            /\ result.context = ContextCreated /\ ContextCreated = 2

C15_Witness ==
    /\ pc = "returned" /\ OnlySansIO /\ n_policies >= 1
    /\ request.parts >= 2 /\ result.http_request = request
    /\ result.status = 404 /\ result.context = 2 /\ result.origin = LastSendEvent

\* The position of the chaining policy of the chain, the positions below it, and
\* the hooks fired at a position so far, in order
ChainingAt == CHOOSE i \in DOMAIN impl_policies : impl_policies[i].kind = "chaining"
BelowChaining == {q \in DOMAIN impl_policies : q > ChainingAt}
HooksAt(q) == SelectSeq(log, LAMBDA e : e.ev \in Hooks /\ e.at = q)
Count(evs, q) == Cardinality({i \in DOMAIN log : log[i].ev \in evs /\ log[i].at = q})

\* on_request, one of on_response and on_exception, on_request, ...
Alternates(hooks) ==
    \A i \in DOMAIN hooks :
        IF i % 2 = 1 THEN hooks[i].ev = "on_request"
        ELSE hooks[i].ev \in {"on_response", "on_exception"}

\* on_response and on_exception come only right after an on_request of the policy
AnswersOnRequest(hooks) ==
    \A i \in DOMAIN hooks :
        hooks[i].ev # "on_request" => i > 1 /\ hooks[i - 1].ev = "on_request"

\* Every hook returns, and what the transport's send raises is an Exception.
HooksReturn ==
    /\ NoHookRaised
    /\ \A i \in SendEvents : log[i].outcome \in {"return", "Exception"}

\* C16: a chain with one chaining policy. Whatever the hooks do, while the
\* chaining policy has made m calls of self.next.send the transport's send has run
\* at most m times, every simple policy below it has fired on_request at most m
\* times, and on_response and on_exception fire only right after on_request of the
\* same policy. With hooks that return and a transport that returns or raises an
\* Exception: when the chaining policy has got the outcome of its m-th call,
\* every simple policy below it has fired on_request m times and one of
\* on_response and on_exception m times, in turn, and the transport's send has run
\* m times. A policy that makes no call (m = 0) leaves the policies below it and
\* the transport untouched, the policies above it fire on_response, in reverse
\* order, and run returns the response the policy returned.
C16_DownstreamOncePerAttempt ==
    /\ pc \in {"chain", "returned", "raised"}
         => /\ \A q \in BelowChaining : AnswersOnRequest(HooksAt(q))
            /\ Len(stack) >= ChainingAt
                 => /\ sendCount <= stack[ChainingAt].attempt
                    /\ \A q \in BelowChaining :
                          Count({"on_request"}, q) <= stack[ChainingAt].attempt
    /\ (pc \in {"chain", "returned", "raised"} /\ HooksReturn)
        => /\ \A q \in BelowChaining : Alternates(HooksAt(q))
           /\ (Len(stack) = ChainingAt /\ Top.phase = "wait" /\ ret.kind # "none")
                => /\ sendCount = Top.attempt
                   /\ \A q \in BelowChaining :
                         /\ Count({"on_request"}, q) = Top.attempt
                         /\ Count({"on_response", "on_exception"}, q) = Top.attempt
           /\ RunEnded
                => \A q \in BelowChaining :
                      /\ Count({"on_request"}, q) = sendCount
                      /\ Count({"on_response", "on_exception"}, q) = sendCount
           /\ (RunEnded /\ impl_policies[ChainingAt].policy \in AnsweringPolicies)
                => /\ sendCount = 0
                   /\ \A q \in BelowChaining : HooksAt(q) = <<>>
                   /\ ChainShape =
                         [i \in 1..(2 * ChainingAt - 1) |->
                            IF i < ChainingAt THEN <<"on_request", i>>
                            ELSE IF i = ChainingAt THEN <<"answer", i>>
                            ELSE <<"on_response", 2 * ChainingAt - i>>]
                   /\ pc = "returned"
                   /\ result = Response(log[2 + ChainingAt].status, 2 + ChainingAt)

C16_Witness ==
    /\ HooksReturn /\ n_policies >= 3 /\ ChainingAt = 1
    /\ Len(stack) = 1 /\ Top.phase = "wait" /\ Top.attempt = 2 /\ ret.kind = "response"
    /\ sendCount = 2 /\ Count({"on_exception"}, 3) = 1 /\ Count({"on_response"}, 3) = 1

\* a run in which the chaining policy made no call of self.next.send
C16_WitnessNoCall ==
    /\ RunEnded /\ HooksReturn /\ ChainingAt = 2 /\ n_policies >= 3
    /\ impl_policies[2].policy \in AnsweringPolicies /\ result.status = 200

\* The hooks and sends of the log that raised
RaisedEvents == {i \in DOMAIN log : log[i].outcome # "return"}

\* on_request(p1..pk), then on_exception(pk-1..p1)
DownToAndUp(k) ==
    [i \in 1..(2 * k - 1) |->
        IF i <= k THEN <<"on_request", i>> ELSE <<"on_exception", 2 * k - i>>]

\* C17: a chain of simple policies in which on_request of the policy at position
\* k raises an Exception E and every other hook returns: the events are
\* on_request of the policies 1..k, then on_exception of the policies k-1..1,
\* each once; no hook but on_request fires on policy k, no policy after k fires
\* a hook, the transport's send is not called, and run raises E.
C17_OnRequestFailureUnwinds ==
    \A i \in RaisedOnRequest :
        (OnlySansIO /\ RaisedEvents = {i} /\ log[i].outcome = "Exception")
            => /\ IsPrefix(ChainShape, DownToAndUp(log[i].at))
               /\ pc # "returned"
               /\ pc = "raised"
                    => /\ ChainShape = DownToAndUp(log[i].at)
                       /\ result = Raised("Exception", i)

C17_Witness ==
    /\ pc = "raised" /\ OnlySansIO /\ n_policies >= 3
    /\ \E i \in RaisedOnRequest :
          /\ RaisedEvents = {i} /\ log[i].outcome = "Exception" /\ log[i].at = 3
          /\ Count({"on_exception"}, 1) = 1 /\ Count({"on_exception"}, 2) = 1

\* The on_response events of the log that raised
RaisedOnResponse == {i \in DOMAIN log : log[i].ev = "on_response" /\ log[i].outcome # "return"}

\* on_request(p1..pn), send, on_response(pn..pk), on_exception(pk-1..p1)
DownAndUpFailingAt(n, k) ==
    [i \in 1..(2 * n + 1) |->
        IF i <= n THEN <<"on_request", i>>
        ELSE IF i = n + 1 THEN <<"send", 1>>
        ELSE IF 2 * n + 2 - i >= k THEN <<"on_response", 2 * n + 2 - i>>
        ELSE <<"on_exception", 2 * n + 2 - i>>]

\* C18: a chain of simple policies p1..pn, a transport send that returned, and
\* on_response of the policy at position k raises an Exception E while every
\* other hook returns: on_response has fired on the policies n..k, on_exception
\* does not fire on policy k, the policies k-1..1 fire on_exception and no
\* on_response, in that order, and run raises E.
C18_OnResponseFailureUnwinds ==
    \A i \in RaisedOnResponse :
        (OnlySansIO /\ RaisedEvents = {i} /\ log[i].outcome = "Exception")
            => /\ IsPrefix(ChainShape, DownAndUpFailingAt(n_policies, log[i].at))
               /\ log[SendEvent(1)].outcome = "return"
               /\ pc # "returned"
               /\ pc = "raised"
                    => /\ ChainShape = DownAndUpFailingAt(n_policies, log[i].at)
                       /\ result = Raised("Exception", i)

C18_Witness ==
    /\ pc = "raised" /\ OnlySansIO /\ n_policies >= 3
    /\ \E i \in RaisedOnResponse :
          /\ RaisedEvents = {i} /\ log[i].outcome = "Exception" /\ log[i].at = 2
          /\ Count({"on_exception"}, 1) = 1 /\ Count({"on_response"}, 3) = 1
          /\ result = Raised("Exception", i)

\* The on_exception events of the log that raised
RaisedOnException ==
    {i \in DOMAIN log : log[i].ev = "on_exception" /\ log[i].outcome # "return"}

\* The last on_exception event of the policy at position q
LastOnException(q) ==
    CHOOSE i \in DOMAIN log :
        /\ log[i].ev = "on_exception" /\ log[i].at = q
        /\ \A j \in DOMAIN log : (log[j].ev = "on_exception" /\ log[j].at = q) => j <= i

\* on_request(p1..pn), send, on_exception(pn..pk), and on_exception(pk-1..p1) too
\* when what on_exception of pk raised is an Exception
DownAndUpReplacedAt(n, k, cls) ==
    [i \in 1..(IF cls = "Exception" THEN 2 * n + 1 ELSE 2 * n + 2 - k) |->
        IF i <= n THEN <<"on_request", i>>
        ELSE IF i = n + 1 THEN <<"send", 1>>
        ELSE <<"on_exception", 2 * n + 2 - i>>]

\* C19: when on_exception of a policy raises F while the runner handles the
\* exception E that self.next.send raised, the runner's send raises F and not E.
\* In a chain of simple policies where the transport's send raised E and no other
\* hook raises, the runners above get F from self.next.send (their on_exception
\* fires when F is an Exception, no hook of theirs when it is not) and run
\* raises F.
C19_OnExceptionFailureReplaces ==
    /\ (lastSend.node.kind = "runner" /\ lastSend.fired = <<"on_request", "on_exception">>)
         => LET e == LastOnException(lastSend.node.id)
            IN /\ log[e].outcome = "return" => lastSend.out = lastSend.got
               /\ log[e].outcome # "return"
                    => /\ lastSend.out = Raised(log[e].outcome, e)
                       /\ lastSend.out # lastSend.got
    /\ \A i \in RaisedOnException :
          (OnlySansIO /\ sendCount = 1 /\ RaisedEvents = {SendEvent(1), i})
            => /\ IsPrefix(ChainShape,
                           DownAndUpReplacedAt(n_policies, log[i].at, log[i].outcome))
               /\ (lastSend.node.kind = "runner" /\ lastSend.node.id < log[i].at)
                    => lastSend.got = Raised(log[i].outcome, i)
               /\ pc # "returned"
               /\ pc = "raised"
                    => /\ ChainShape =
                             DownAndUpReplacedAt(n_policies, log[i].at, log[i].outcome)
                       /\ result = Raised(log[i].outcome, i)
                       /\ result # Raised("Exception", SendEvent(1))

C19_Witness ==
    /\ pc = "raised" /\ OnlySansIO /\ n_policies >= 3
    /\ \E i \in RaisedOnException :
          /\ sendCount = 1 /\ RaisedEvents = {SendEvent(1), i} /\ log[i].at = 2
          /\ log[i].outcome = "Exception"
          /\ result = Raised("Exception", i)
          /\ Count({"on_exception"}, 1) = 1

\* C20: the keyword arguments of every transport send are the option bag the
\* context held when _TransportRunner.send was called without the three internal
\* keys: the other keys with their values, no further key, and no keyword
\* argument for an empty bag; the three keys are gone from the context's bag too.
C20_OnlyInternalKeysRemoved ==
    /\ \A i \in DOMAIN sendKwargs :
          /\ DOMAIN sendKwargs[i].kwargs = DOMAIN sendKwargs[i].bag \ kwargs_to_remove
          /\ \A k \in DOMAIN sendKwargs[i].kwargs :
                sendKwargs[i].kwargs[k] = sendKwargs[i].bag[k]
          /\ DOMAIN sendKwargs[i].bag = {} => sendKwargs[i].kwargs = <<>>
    /\ (lastSend.node.kind = "transport" /\ sendKwargs # <<>>)
         => options = sendKwargs[Len(sendKwargs)].kwargs

C20_Witness ==
    \E i \in DOMAIN sendKwargs :
        /\ DOMAIN sendKwargs[i].bag = OptionKeys
        /\ DOMAIN sendKwargs[i].kwargs = TransportKeys
        /\ sendKwargs[i].bag["insecure_domain_change"] = PolicyValue
        /\ sendKwargs[i].kwargs["connection_timeout"] = CallerValue

\* The on_request events of the log
OnRequestEvents == {i \in DOMAIN log : log[i].ev = "on_request"}

\* No on_request hook has fired since the latest transport send
NoOnRequestSinceSend ==
    /\ sendCount > 0 /\ SendEvents # {}
    /\ \A i \in OnRequestEvents : i < LastSendEvent

\* C21: the internal keys are stripped from the context's own option bag. From a
\* transport send, returned or raised, until a policy's on_request runs again, the
\* context options hold none of the three internal keys (this is what on_response
\* and on_exception of the policies above see); and the bag a retried attempt
\* brings to the transport holds an internal key only if a policy's on_request
\* wrote it again, never with the value the caller of run passed.
C21_StrippedInPlace ==
    /\ NoOnRequestSinceSend => DOMAIN options \cap kwargs_to_remove = {}
    /\ \A i \in DOMAIN sendKwargs :
          i >= 2 => \A k \in DOMAIN sendKwargs[i].bag \cap kwargs_to_remove :
                       sendKwargs[i].bag[k] = PolicyValue

C21_Witness ==
    /\ sendCount = 2 /\ Len(sendKwargs) = 2
    /\ kwargs_to_remove \subseteq DOMAIN sendKwargs[1].bag
    /\ \E k \in kwargs_to_remove : sendKwargs[1].bag[k] = CallerValue
    /\ log[SendEvent(1)].outcome = "Exception"
    /\ DOMAIN sendKwargs[2].bag \cap kwargs_to_remove = {}
    /\ NoOnRequestSinceSend
    /\ \E i \in DOMAIN log : log[i].ev = "on_response" /\ i > LastSendEvent

\* The nodes a run that starts at first_node passes, by the next attributes as
\* they are now
ChainOfFirst == Walk(first_node, Len(impl_policies) + MaxSecondPolicies + 1)

\* C22: constructing a second Pipeline leaves the first one's chain as it was: the
\* next attributes still lead from first_node through _impl_policies to the first
\* Pipeline's transport runner, and every run on the first Pipeline fires hooks
\* of its own runners only and sends with its own transport.
C22_FirstChainUnaltered ==
    second.built =>
        /\ ChainOfFirst = impl_policies \o <<TransportRunner>>
        /\ \A i \in SendEvents : log[i].policy = TransportRunner.policy
        /\ \A i \in HookEvents : log[i].at \in DOMAIN impl_policies

\* The entries of the list given to the constructor that are not None
NotNone == SelectSeq(policies.list, LAMBDA entry : entry # "None")

\* C23: the entries of the policy list that are None are dropped at construction.
\* _impl_policies holds, in the order of the list, a runner of its own for every
\* simple policy and the object itself for every chaining policy, and nothing
\* else; a run through simple policies in which nothing raises fires the hooks of
\* exactly these policies; and with a list of None entries only the run is the
\* transport's send alone, as with the empty list.
C23_FalsyEntriesDropped ==
    /\ Len(impl_policies) = Len(NotNone)
    /\ \A i \in DOMAIN impl_policies :
          /\ impl_policies[i].policy = NotNone[i]
          /\ impl_policies[i] = IF NotNone[i] \in SansIOPolicies
                                THEN RunnerNode(i, NotNone[i]) ELSE ChainingNode(NotNone[i])
    /\ (pc = "returned" /\ ~HasRetryPolicy /\ NoHookRaised /\ NoSendRaised)
          => ChainShape = DownAndUp(Len(NotNone), "on_response")
    /\ NotNone = <<>>
          => /\ first_node = TransportRunner
             /\ IsPrefix(ChainShape, <<<<"send", 1>>>>)
             /\ RunEnded => ChainShape = <<<<"send", 1>>>>

C23_Witness ==
    /\ policies.list = <<"None", "S", "None">>
    /\ pc = "returned" /\ NoHookRaised /\ NoSendRaised
    /\ ChainShape = DownAndUp(1, "on_response")

\* C24: when a with block has been left, the transport's __exit__ has been called
\* with the exception details that left the block, unchanged; Pipeline.__exit__
\* returned None whatever the transport's __exit__ returned; so an exception a run
\* raised inside the block and the block did not catch goes on to the caller of
\* the with statement, and the transport's __exit__ has run by then.
C24_ExitForwardsAndNeverSuppresses ==
    (scope = "out" /\ scopes > 0)
        => /\ exit.forwarded = exit.exc_details
           /\ exit.returned = "None"
           /\ exit.escaped = exit.exc_details
           /\ exitCount = scopes

C24_Witness ==
    /\ scope = "out" /\ scopes = 1 /\ pc = "raised"
    /\ exit.exc_details = result /\ result.kind = "raise"
    /\ exit.transport_returned = "True"
    /\ exit.escaped = result /\ exitCount = 1

\* The sub-requests whose preparation raised
FailedParts == {k \in DOMAIN future : future[k] = "failed"}

\* C25: once on_request of a sub-policy has raised for a sub-request, the run
\* serializes no composite body, creates no context, fires no hook of the main
\* chain and sends nothing; when it ends, it has raised an exception that
\* on_request of a sub-policy raised.
C25_SubPolicyFailureEndsRun ==
    FailedParts # {}
        => /\ pc \in {"multipart", "shutdown", "raised"}
           /\ ~serialized /\ ~hasContext
           /\ log = <<>> /\ stack = <<>> /\ sendCount = 0
           /\ pc = "raised"
                => /\ result.kind = "raise"
                   /\ \E k \in FailedParts :
                         /\ result = subExc[k]
                         /\ result = RaisedInPart(result.cls, subHooks[k], k)

C25_Witness ==
    /\ pc = "raised" /\ request.parts >= 2 /\ request.subpolicies >= 2
    /\ FailedParts = {2} /\ future[1] = "done"
    /\ subHooks[2] = 2 /\ result = subExc[2]
    /\ impl_policies # <<>>

\* The failing sub-request with the lowest position in the list
FirstFailedPart == CHOOSE k \in FailedParts : \A j \in FailedParts : k <= j

\* C26: when the list comprehension has raised, and when run has raised, in the
\* multipart phase, the exception is the one of the failing sub-request with the
\* lowest position, also when sub-requests after it failed before it or fail
\* while the executor shuts down.
C26_LowestFailingPartRaises ==
    (FailedParts # {} /\ pc \in {"shutdown", "raised"})
        => /\ ret = subExc[FirstFailedPart]
           /\ pc = "raised" => result = subExc[FirstFailedPart]

C26_Witness ==
    /\ pc = "raised" /\ request.parts >= 3
    /\ future[1] = "done" /\ FailedParts = {2, 3}
    /\ result = subExc[2] /\ subExc[2] # subExc[3]

\* on_request of the policies 1..n of the bundle's list on part k, each on the
\* part's own context: no transport, the bundle's options
OnRequestOfEach(n, k) ==
    [i \in 1..n |->
        [hook |-> "on_request", policy |-> i, part |-> k,
         context |-> [id |-> k, transport |-> "None", options |-> pipeline_options]]]

\* C27: in the multipart phase the hook calls on a sub-request are on_request of
\* the policies of the bundle's list, in list order, once each and all of them
\* when its preparation is done, every call on the sub-request's own context (no
\* transport, the bundle's options, shared with no other sub-request); no
\* on_response and no on_exception of a sub-policy is ever called, also after
\* on_request raised; and no hook of the main chain fires in that phase.
C27_SubPoliciesOnRequestOnly ==
    /\ \A k \in DOMAIN subCalls :
          /\ IsPrefix(subCalls[k], OnRequestOfEach(request.subpolicies, k))
          /\ Len(subCalls[k]) = subHooks[k]
          /\ future[k] = "done" => subCalls[k] = OnRequestOfEach(request.subpolicies, k)
          /\ future[k] \in {"pending", "cancelled"} => subCalls[k] = <<>>
          /\ \A j \in DOMAIN subCalls \ {k} :
                \A c \in DOMAIN subCalls[k], d \in DOMAIN subCalls[j] :
                    subCalls[k][c].context.id # subCalls[j][d].context.id
    /\ pc \in {"multipart", "shutdown"} => HookEvents = {}

C27_Witness ==
    /\ pc = "raised" /\ request.parts >= 2 /\ request.subpolicies >= 2
    /\ run_kwargs # <<>>
    /\ future[1] = "done" /\ Len(subCalls[1]) = 2
    /\ future[2] = "failed" /\ Len(subCalls[2]) = 1

\* The hook calls made so far by the task that prepares the changeset of level d,
\* and whether that task is done
ParentCalls(d) ==
    IF d = 1 THEN subHooks[request.changeset] ELSE Len(changesets[d - 1].calls[1])
ParentDone(d) ==
    IF d = 1 THEN future[request.changeset] = "done"
    ELSE changesets[d - 1].future[1] = "done"

\* on_request of every policy of the list of the changeset of level d on its part
\* j, once each, in list order
NestedOnRequestOfEach(d, j) ==
    [i \in 1..request.subpolicies |->
        [hook |-> "on_request", list |-> d, policy |-> i, part |-> j,
         context |-> [id |-> PartId(d, j), transport |-> "None",
                      options |-> pipeline_options]]]

ChangesetsInOrder ==
    /\ \A d \in DOMAIN changesets :
          /\ (ParentCalls(d) > 0 \/ ParentDone(d)) => changesets[d].pc = "done"
          /\ changesets[d].pc = "done"
                => \A j \in NestedParts :
                      /\ changesets[d].future[j] = "done"
                      /\ changesets[d].calls[j] = NestedOnRequestOfEach(d, j)
          /\ \A j \in NestedParts :
                IsPrefix(changesets[d].calls[j], NestedOnRequestOfEach(d, j))
    /\ serialized
          => /\ \A k \in Parts :
                   future[k] = "done" /\ subCalls[k] = OnRequestOfEach(request.subpolicies, k)
             /\ \A d \in DOMAIN changesets : changesets[d].pc = "done"

InMultipartPhase == pc \in {"multipart", "shutdown"}

\* C28: a sub-request that is a changeset has had on_request of every policy of
\* its own list on each of its parts, once each and in list order, and so has
\* every changeset nested in it, before a policy of the enclosing list gets
\* on_request for it; no part of any level gets a hook twice; when the composite
\* body is serialized every part of every level has been prepared in full; and
\* the preparation phase of a run, with its recursive calls, always comes to an
\* end.
C28_ChangesetsPreparedFirst ==
    /\ []ChangesetsInOrder
    /\ (InMultipartPhase ~> ~InMultipartPhase)

C28_Witness ==
    /\ serialized /\ request.depth = 2 /\ request.parts = 2 /\ request.subpolicies = 2
    /\ \A d \in DOMAIN changesets : changesets[d].pc = "done"
    /\ changesets[2].calls[2] = NestedOnRequestOfEach(2, 2)
    /\ subHooks[request.changeset] = 2

\* No call of get_random_bytes is under way
BetweenCalls == \A t \in Threads : callers[t].pc \in {"idle", "done"}

\* C29: every call of get_random_bytes(n) that has returned has returned n
\* bytes, also when the calls of several threads interleave; and between calls the
\* recorded length is the length of the buffer, which is never shorter than the
\* default length it started with.
C29_ExactlyNBytes ==
    /\ \A t \in Threads :
          callers[t].pc = "done" => callers[t].returned = callers[t].buffer_length
    /\ BetweenCalls
          => /\ byte_buffer.length = byte_buffer.data
             /\ byte_buffer.data >= DEFAULT_LENGTH

\* C30: get returns only when the status code of the response is 200, and then
\* the deserialized result (handed through cls when the caller gave one). With
\* any other status code it raises: the caller's error type when the caller's
\* error_map has one for the status code, else ClientAuthenticationError for 401,
\* ResourceNotFoundError for 404, ResourceExistsError for 409,
\* ResourceNotModifiedError for 304 unless the caller's map has None there, and
\* HttpResponseError in every other case.
C30_OperationMapsStatus ==
    operation.pc = "done"
        => LET status_code == operation.status_code
               given == operation.error_map
               outcome == operation.outcome
               has == given.given = "dict" /\ status_code \in DOMAIN given.dict
           IN /\ (outcome.kind = "return") <=> (status_code = 200)
              /\ status_code = 200
                    => outcome.value = IF operation.cls THEN "cls(deserialized)"
                                       ELSE "deserialized"
              /\ status_code # 200
                    => outcome.value =
                          IF has /\ given.dict[status_code] # "None"
                          THEN given.dict[status_code]
                          ELSE IF has THEN "HttpResponseError"
                          ELSE IF status_code = 401 THEN "ClientAuthenticationError"
                          ELSE IF status_code = 404 THEN "ResourceNotFoundError"
                          ELSE IF status_code = 409 THEN "ResourceExistsError"
                          ELSE IF status_code = 304 THEN "ResourceNotModifiedError"
                          ELSE "HttpResponseError"

C30_Witness ==
    /\ operation.pc = "done" /\ operation.status_code = 404
    /\ operation.error_map = [given |-> "dict", dict |-> [k \in {404, 500} |-> "CallerError"]]
    /\ operation.outcome = RaisedError("CallerError")

====
